---- MODULE Spec2Model ----
(***************************************************************************)
(* SplitPay: the settlement solver min_cash_flow_settlements of            *)
(* app/utils/helpers.py, as a state machine.                               *)
(*                                                                         *)
(* Money is counted in mils (thousandths of a currency unit), so that one  *)
(* cent is 10 mils and a float such as -10.004 is the integer -10004.      *)
(* The input mapping is a sequence of balances: member k is the k-th key   *)
(* of the dict in iteration order and balances[k] is its value.            *)
(***************************************************************************)
EXTENDS Integers, Sequences, FiniteSets, TLC

VARIABLES balances, creditors, debtors, i, j, res, pc, iters

\* Several invocations of the solver in flight at once: each invocation's
\* position and returned value, and the local variables of each frame.
VARIABLES calls, frames

\* The command line at work on the ledger: the contents of the file
\* .eco_session (0 when the file is absent), the committed rows of the
\* database, the rows as the open SQLAlchemy session db sees them, the command
\* being run with its arguments, answers and locals, and the calls made on the
\* session so far.
VARIABLES session_file, database, db, cmd, log

vars ==
    <<balances, creditors, debtors, i, j, res, pc, iters, calls, frames,
      session_file, database, db, cmd, log>>

solverVars == <<balances, creditors, debtors, i, j, res, pc, iters>>

callVars == <<calls, frames>>

appVars == <<session_file, database, db, cmd, log>>

\* What a single invocation of the solver leaves alone.
otherVars == <<calls, frames, session_file, database, db, cmd, log>>

(* ------------------------------ bounds --------------------------------- *)

\* Largest number of members in a mapping of whole-cent balances.
MaxMembers == 4
\* Largest whole-cent balance, in cents.
MaxCents == 4
\* Largest number of members in a mapping of balances that carry sub-cent noise.
MaxNoisyMembers == 3
\* Largest balance, in cents, around which sub-cent noise is drawn.
MaxNoisyCents == 1
\* Largest number of members in a mapping drawn so that it sums to zero.
MaxZeroSumMembers == 5
\* Largest balance, in cents, of a mapping drawn so that it sums to zero.
MaxZeroSumCents == 6

\* Number of invocations of the solver in flight at once.
NumCalls == 2
\* Largest number of members in a mapping handed to concurrent invocations.
MaxCallMembers == 2
\* Largest balance, in cents, in a mapping handed to concurrent invocations.
MaxCallCents == 2

\* Number of groups in the database.
MaxGroups == 2
\* Largest number of repayments recorded in a ledger.
MaxPayments == 1

\* The most new splits entered in one `expense edit`.
MaxNewSplits == 2

\* The most members added by `member add` to the members of the ledger.
MaxNewMembers == 2

\* The most names typed at the "Member name" prompt of one `expense add`.
MaxTypedNames == 3

\* The largest amount, in cents, of the second expense of a group that is
\* settled.
MaxDebtCents == 3

(* ---------------------------- arithmetic ------------------------------- *)

\* One cent, in mils.
Cent == 10

\* eps = 0.01
Eps == 10

Abs(x) == IF x < 0 THEN -x ELSE x

Min(x, y) == IF x <= y THEN x ELSE y

\* Rounding left out: the value keeps its mils.
RoundNone(x) == x

\* round(x, 2): the nearest whole cent.  A value that lies exactly between two
\* cents goes to the even cent; the inputs drawn below never lie there (as a
\* binary float such a value is strictly nearer to one of the two cents).
Round2(x) ==
    LET r == x % Cent
        lo == x - r
    IN  IF r < 5 THEN lo
        ELSE IF r > 5 THEN lo + Cent
        ELSE IF (lo \div Cent) % 2 = 0 THEN lo ELSE lo + Cent

(* ------------------------------ inputs --------------------------------- *)

CentValues == {Cent * c : c \in -MaxCents..MaxCents}

NoisyValues == {Cent * c + o : c \in -MaxNoisyCents..MaxNoisyCents, o \in {-4, 0, 4}}

\* The mappings of the unit tests of min_cash_flow_settlements.
TestInputs ==
    { <<>>,
      <<10000, 0>>,
      <<-10000>>,
      <<0, 0>>,
      <<-10000, 10000>>,
      <<-10000, -20000, 15000, 15000>>,
      <<-4, 4>>,
      <<-10004, 10004>>,
      <<-25000, 10000, 10000, 5000>> }

Inputs ==
    UNION {[1..n -> CentValues] : n \in 0..MaxMembers}
    \cup UNION {[1..n -> NoisyValues] : n \in 0..MaxNoisyMembers}
    \cup TestInputs

RECURSIVE SumSeq(_)
SumSeq(s) == IF s = <<>> THEN 0 ELSE s[Len(s)] + SumSeq(SubSeq(s, 1, Len(s) - 1))

ZeroSumValues == {Cent * c : c \in -MaxZeroSumCents..MaxZeroSumCents}

\* A mapping of whole cents that sums to zero: the empty one, or one whose
\* last member takes what the others leave.
IsZeroSumInput(bal) ==
    \/ bal = <<>>
    \/ \E n \in 0..(MaxZeroSumMembers - 1) : \E g \in [1..n -> ZeroSumValues] :
          /\ -SumSeq(g) \in ZeroSumValues
          /\ bal = Append(g, -SumSeq(g))

(* ------------------------------ solver --------------------------------- *)

\* Rounding without the epsilon test.
CleanRoundOnly(v) == Round2(v)

\* 0.0 if abs(v) < eps else round(v, 2)
Clean(v) == IF Abs(v) < Eps THEN 0 ELSE Round2(v)

\* b = {k: clean(v) for k, v in balances.items()}
Cleaned(bal) == [k \in 1..Len(bal) |-> Clean(bal[k])]

\* b.items(), in iteration order
Items(b) == [k \in 1..Len(b) |-> <<k, b[k]>>]

\* v >= 0 in place of v > 0.
IsNonNegative(p) == p[2] >= 0

IsPositive(p) == p[2] > 0

IsNegative(p) == p[2] < 0

\* [(k, v) for k, v in b.items() if v > 0]
CreditorsOf(b) == SelectSeq(Items(b), IsPositive)

\* Every member with a non-zero balance taken as a debtor, for abs(v).
DebtorsOfNonZero(b) ==
    LET nz == SelectSeq(Items(b), LAMBDA p : p[2] # 0)
    IN  [n \in 1..Len(nz) |-> <<nz[n][1], Abs(nz[n][2])>>]

\* [(k, -v) for k, v in b.items() if v < 0]
DebtorsOf(b) ==
    LET neg == SelectSeq(Items(b), IsNegative)
    IN  [n \in 1..Len(neg) |-> <<neg[n][1], -neg[n][2]>>]

\* Place x before every entry whose amount is at most its own.
InsertBeforeEqual(sorted, x) ==
    LET pos == Cardinality({n \in 1..Len(sorted) : sorted[n][2] > x[2]})
    IN  SubSeq(sorted, 1, pos) \o <<x>> \o SubSeq(sorted, pos + 1, Len(sorted))

\* Place x behind every entry whose amount is at least its own.
InsertDesc(sorted, x) ==
    LET pos == Cardinality({n \in 1..Len(sorted) : sorted[n][2] >= x[2]})
    IN  SubSeq(sorted, 1, pos) \o <<x>> \o SubSeq(sorted, pos + 1, Len(sorted))

\* The list left in the iteration order of the mapping.
SortNone(s) == s

\* list.sort(key=lambda x: x[1], reverse=True): descending by amount, stable.
RECURSIVE SortDesc(_)
SortDesc(s) ==
    IF s = <<>> THEN <<>>
    ELSE InsertDesc(SortDesc(SubSeq(s, 1, Len(s) - 1)), s[Len(s)])

\* The larger of the two amounts.
PayLarger(d_amt, c_amt) == Round2(IF d_amt >= c_amt THEN d_amt ELSE c_amt)

\* Half of the smaller amount, an installment of it.
PayHalf(d_amt, c_amt) == Round2(Min(d_amt, c_amt) \div 2)

\* pay = round(min(d_amt, c_amt), 2)
Pay(d_amt, c_amt) == Round2(Min(d_amt, c_amt))

\* round(amt - pay, 2)
Remaining(amt, pay) == Round2(amt - pay)

\* rem < eps in place of rem <= eps.
ClearedBelowEps(rem) == rem < Eps

\* rem < 0 in place of rem <= eps.
ClearedNegative(rem) == rem < 0

\* rem <= eps
Cleared(rem) == rem <= Eps

\* The local variables of a frame before the function body has run.
NoFrame == [creditors |-> <<>>, debtors |-> <<>>, i |-> 0, j |-> 0, res |-> <<>>]

\* No concurrent invocation in flight.
\* No row in any table.
NoRows == [groups |-> <<>>, members |-> {}, expenses |-> {}, splits |-> {}, payments |-> {}]

\* No command is being run.
NoCommand == [name |-> "none", pc |-> "exited"]

\* No command line at work.
AppIdle ==
    /\ session_file = 0
    /\ database = NoRows
    /\ db = NoRows
    /\ cmd = NoCommand
    /\ log = <<>>

\* No concurrent invocation in flight and no command line at work.
OthersIdle ==
    /\ calls = <<>>
    /\ frames = <<>>
    /\ AppIdle

Init ==
    /\ balances \in Inputs
    /\ creditors = <<>>
    /\ debtors = <<>>
    /\ i = 0
    /\ j = 0
    /\ res = <<>>
    /\ pc = "call"
    /\ iters = 0
    /\ OthersIdle

InitZeroSum ==
    /\ IsZeroSumInput(balances)
    /\ creditors = <<>>
    /\ debtors = <<>>
    /\ i = 0
    /\ j = 0
    /\ res = <<>>
    /\ pc = "call"
    /\ iters = 0
    /\ OthersIdle

\* Lines 138-145 when a side is empty: return [].
PrepareEmpty ==
    /\ pc = "call"
    /\ LET b == Cleaned(balances)
       IN  /\ (CreditorsOf(b) = <<>> \/ DebtorsOf(b) = <<>>)
           /\ creditors' = CreditorsOf(b)
           /\ debtors' = DebtorsOf(b)
    /\ pc' = "done"
    /\ UNCHANGED <<balances, i, j, res, iters>>
    /\ UNCHANGED otherVars

\* Lines 138-152 otherwise: both lists sorted, cursors at 0, empty result.
PrepareSort ==
    /\ pc = "call"
    /\ LET b == Cleaned(balances)
       IN  /\ CreditorsOf(b) # <<>>
           /\ DebtorsOf(b) # <<>>
           /\ creditors' = SortDesc(CreditorsOf(b))
           /\ debtors' = SortDesc(DebtorsOf(b))
    /\ i' = 0
    /\ j' = 0
    /\ res' = <<>>
    /\ pc' = "loop"
    /\ UNCHANGED <<balances, iters>>
    /\ UNCHANGED otherVars

\* One pass of the body of the while loop.
Step ==
    /\ pc = "loop"
    /\ i < Len(debtors)
    /\ j < Len(creditors)
    /\ LET d_name == debtors[i + 1][1]
           d_amt == debtors[i + 1][2]
           c_name == creditors[j + 1][1]
           c_amt == creditors[j + 1][2]
           pay == Pay(d_amt, c_amt)
           d_rem == Remaining(d_amt, pay)
           c_rem == Remaining(c_amt, pay)
       IN  /\ res' = IF pay >= Eps THEN Append(res, <<d_name, c_name, pay>>) ELSE res
           /\ debtors' = [debtors EXCEPT ![i + 1] = <<d_name, d_rem>>]
           /\ creditors' = [creditors EXCEPT ![j + 1] = <<c_name, c_rem>>]
           /\ i' = IF Cleared(d_rem) THEN i + 1 ELSE i
           /\ j' = IF Cleared(c_rem) THEN j + 1 ELSE j
    /\ iters' = iters + 1
    /\ UNCHANGED <<balances, pc>>
    /\ UNCHANGED otherVars

\* The loop condition fails: return res.
Return ==
    /\ pc = "loop"
    /\ ~(i < Len(debtors) /\ j < Len(creditors))
    /\ pc' = "done"
    /\ UNCHANGED <<balances, creditors, debtors, i, j, res, iters>>
    /\ UNCHANGED otherVars

Next == PrepareEmpty \/ PrepareSort \/ Step \/ Return

Spec == Init /\ [][Next]_vars

\* The solver called on mappings that sum to zero.
ZeroSumSpec == InitZeroSum /\ [][Next]_vars

(* ------------------- several invocations in flight ---------------------- *)

\* The invocations in flight.
Calls == 1..NumCalls

\* The mappings handed to concurrent invocations: whole-cent balances of up to
\* MaxCallMembers members, and the mappings of the unit tests.
CallInputs ==
    UNION {[1..n -> {Cent * c : c \in -MaxCallCents..MaxCallCents}] : n \in 0..MaxCallMembers}
        \cup TestInputs

\* The mapping with every balance negated: creditors and debtors exchanged.
Negated(bal) == [k \in 1..Len(bal) |-> -bal[k]]

\* What an invocation may be handed: the mapping itself, which several
\* invocations then share, or another mapping.
Variants(bal) == {bal, Negated(bal)}

\* Every invocation working in one module-level set of variables.
FrameShared(t) == 1

\* creditors, debtors, i, j and res are locals: each invocation has its own frame.
Frame(t) == t

\* The frame after lines 139-152.
PreparedFrame(bal) ==
    LET b == Cleaned(bal)
    IN  [creditors |-> SortDesc(CreditorsOf(b)), debtors |-> SortDesc(DebtorsOf(b)),
         i |-> 0, j |-> 0, res |-> <<>>]

\* while i < len(debtors) and j < len(creditors)
LoopGuard(f) == f.i < Len(f.debtors) /\ f.j < Len(f.creditors)

\* The frame after one pass of the body of the while loop.
StepFrame(f) ==
    LET d_name == f.debtors[f.i + 1][1]
        d_amt == f.debtors[f.i + 1][2]
        c_name == f.creditors[f.j + 1][1]
        c_amt == f.creditors[f.j + 1][2]
        pay == Pay(d_amt, c_amt)
        d_rem == Remaining(d_amt, pay)
        c_rem == Remaining(c_amt, pay)
    IN  [creditors |-> [f.creditors EXCEPT ![f.j + 1] = <<c_name, c_rem>>],
         debtors |-> [f.debtors EXCEPT ![f.i + 1] = <<d_name, d_rem>>],
         i |-> IF Cleared(d_rem) THEN f.i + 1 ELSE f.i,
         j |-> IF Cleared(c_rem) THEN f.j + 1 ELSE f.j,
         res |-> IF pay >= Eps THEN Append(f.res, <<d_name, c_name, pay>>) ELSE f.res]

\* The while loop run to its end on a frame of its own: the list returned.
RECURSIVE RunLoop(_)
RunLoop(f) == IF LoopGuard(f) THEN RunLoop(StepFrame(f)) ELSE f.res

\* min_cash_flow_settlements(bal), run alone.
MinCashFlowSettlements(bal) ==
    LET b == Cleaned(bal)
    IN  IF CreditorsOf(b) = <<>> \/ DebtorsOf(b) = <<>> THEN <<>>
        ELSE RunLoop(PreparedFrame(bal))

\* NumCalls invocations are made, each on the mapping balances or on its
\* negation; none has started.
InitCalls ==
    /\ balances \in CallInputs
    /\ creditors = <<>>
    /\ debtors = <<>>
    /\ i = 0
    /\ j = 0
    /\ res = <<>>
    /\ pc = "call"
    /\ iters = 0
    /\ calls \in [Calls -> [pc : {"call"}, arg : Variants(balances), ret : {<<>>}]]
    /\ frames = [t \in Calls |-> NoFrame]
    /\ AppIdle

\* Invocation t, lines 138-145 when a side is empty: return [].
CallPrepareEmpty(t) ==
    /\ calls[t].pc = "call"
    /\ LET b == Cleaned(calls[t].arg)
       IN  /\ (CreditorsOf(b) = <<>> \/ DebtorsOf(b) = <<>>)
           /\ frames' = [frames EXCEPT ![Frame(t)] =
                  [NoFrame EXCEPT !.creditors = CreditorsOf(b), !.debtors = DebtorsOf(b)]]
    /\ calls' = [calls EXCEPT ![t].pc = "done", ![t].ret = <<>>]
    /\ UNCHANGED <<solverVars, appVars>>

\* Invocation t, lines 138-152 otherwise.
CallPrepareSort(t) ==
    /\ calls[t].pc = "call"
    /\ LET b == Cleaned(calls[t].arg)
       IN  /\ CreditorsOf(b) # <<>>
           /\ DebtorsOf(b) # <<>>
    /\ frames' = [frames EXCEPT ![Frame(t)] = PreparedFrame(calls[t].arg)]
    /\ calls' = [calls EXCEPT ![t].pc = "loop"]
    /\ UNCHANGED <<solverVars, appVars>>

\* Invocation t, one pass of the body of the while loop.
CallStep(t) ==
    /\ calls[t].pc = "loop"
    /\ LoopGuard(frames[Frame(t)])
    /\ frames' = [frames EXCEPT ![Frame(t)] = StepFrame(frames[Frame(t)])]
    /\ UNCHANGED <<solverVars, appVars, calls>>

\* Invocation t, the loop condition fails: return res.
CallReturn(t) ==
    /\ calls[t].pc = "loop"
    /\ ~LoopGuard(frames[Frame(t)])
    /\ calls' = [calls EXCEPT ![t].pc = "done", ![t].ret = frames[Frame(t)].res]
    /\ UNCHANGED <<solverVars, appVars, frames>>

\* Any invocation takes its next step: every interleaving.
CallNext ==
    \E t \in Calls :
        CallPrepareEmpty(t) \/ CallPrepareSort(t) \/ CallStep(t) \/ CallReturn(t)

ConcurrentSpec == InitCalls /\ [][CallNext]_vars

(* ------------------- quantities the properties speak of ----------------- *)

RECURSIVE SumOver(_, _)
SumOver(S, f) ==
    IF S = {} THEN 0
    ELSE LET x == CHOOSE y \in S : TRUE
         IN  f[x] + SumOver(S \ {x}, f)

Members == 1..Len(balances)

Entries == 1..Len(res)

\* The balances after epsilon zeroing and rounding, in mils.
CentBalance == Cleaned(balances)

DebtorSet == {k \in Members : CentBalance[k] < 0}

CreditorSet == {k \in Members : CentBalance[k] > 0}

\* The cent balances sum to zero.
Balanced == SumOver(Members, CentBalance) = 0

\* Sum of the amounts of the returned entries.
TotalPaid == SumOver(Entries, [n \in Entries |-> res[n][3]])

\* round(sum(v for v in balances.values() if v > 0), 2)
TotalPositive ==
    Round2(SumOver(Members, [k \in Members |-> IF balances[k] > 0 THEN balances[k] ELSE 0]))

\* round(sum(-v for v in balances.values() if v < 0), 2)
TotalNegative ==
    Round2(SumOver(Members, [k \in Members |-> IF balances[k] < 0 THEN -balances[k] ELSE 0]))

\* What member k pays as a debtor, and receives as a creditor, over the result.
PaidBy(k) == SumOver(Entries, [n \in Entries |-> IF res[n][1] = k THEN res[n][3] ELSE 0])

ReceivedBy(k) == SumOver(Entries, [n \in Entries |-> IF res[n][2] = k THEN res[n][3] ELSE 0])

(* ----------------- the ledger, the session and the commands -------------- *)

\* round(x + 1e-9, 2): the nearest whole cent, a value exactly between two
\* cents going to the upper one.
RoundNudged(x) == Cent * ((x + 5) \div Cent)

GroupIds == 1..MaxGroups

\* The names of the members of a group, in alphabetical order.
MemberNames == <<"ann", "bob", "cat">>

\* A name that no member bears.
Stranger == "zed"

\* The names a user may type.
TypedNames == {MemberNames[n] : n \in 1..Len(MemberNames)} \cup {Stranger}

\* Members.id of the n-th member added to group g.
MemberId(g, n) == Len(MemberNames) * (g - 1) + n

\* The rows of `member add` for group g.
MembersOf(g) ==
    {[id |-> MemberId(g, n), name |-> MemberNames[n], group_id |-> g] :
        n \in 1..Len(MemberNames)}

\* The amount of the expense added to group g: 0.02 or 0.034.
SeedAmount(g) == IF g % 2 = 1 THEN 2 * Cent ELSE 3 * Cent + 4

\* The row of `expense add` in group g: paid by the first member and split
\* with the others.
SeedExpense(g) ==
    [id |-> g, group_id |-> g, description |-> "dinner", amount |-> SeedAmount(g),
     date |-> "2024-01-01", paid_by_id |-> MemberId(g, 1)]

\* split_amount = round(amount / len(members), 2), one row per other member.
SeedSplits(g) ==
    {[id |-> (Len(MemberNames) - 1) * (g - 1) + n - 1, expense_id |-> g,
      member_id |-> MemberId(g, n),
      share_amount |-> Round2(SeedAmount(g) \div (Len(MemberNames) - 1))] :
        n \in 2..Len(MemberNames)}

\* The database after each group of the sequence was created and given its
\* members and one expense.
Ledger(groups) ==
    [groups |-> groups,
     members |-> UNION {MembersOf(groups[k]) : k \in 1..Len(groups)},
     expenses |-> {SeedExpense(groups[k]) : k \in 1..Len(groups)},
     splits |-> UNION {SeedSplits(groups[k]) : k \in 1..Len(groups)},
     payments |-> {}]

\* A command at its start: the session is opened by SessionLocal().
NewCommand(name, args, rows, stored) ==
    [name |-> name, args |-> args, pc |-> "enter", group_id |-> 0,
     exc |-> "none", code |-> 0, ran_body |-> FALSE, body_exc |-> "none",
     choice |-> [kind |-> "none", n |-> 0], loc |-> <<>>,
     before |-> rows, session0 |-> stored]

\* A call made on the session db, and who made it.
Call(op, by) == [op |-> op, by |-> by]

\* except of errors only, typer.Exit passing through.
CatchesErrors(e) == e = "Error"

\* except Exception: typer.Exit is a RuntimeError, an Exception like any error.
Catches(e) == e \in {"Exit", "Error"}

\* Where an exception raised under get_db_and_group goes first.
Handler(e) == IF Catches(e) THEN "except" ELSE "close"

\* raise e
Reraise(e) == e

\* The answers to "Enter the number of the group": a numeral or another text.
Choices ==
    {[kind |-> "num", n |-> k] : k \in -1..MaxGroups + 1} \cup {[kind |-> "text", n |-> 0]}

\* index = int(choice), positions counted from zero.
IndexFromZero(n) == n

\* index = int(choice) - 1
Index(n) == n - 1

\* resolve_or_prompt_group(db), called on entering get_db_and_group.
ResolveOrPromptGroup ==
    /\ cmd.pc = "enter"
    /\ \E choice \in Choices :
          LET groups == db.groups
              prompted == Len(groups) > 1
              index == Index(choice.n)
              valid == choice.kind = "num" /\ 0 <= index /\ index < Len(groups)
              selected == IF prompted THEN groups[index + 1] ELSE groups[1]
              asked == IF prompted THEN choice ELSE cmd.choice
          IN  IF session_file # 0
              THEN /\ cmd' = [cmd EXCEPT !.pc = "lookup", !.group_id = session_file]
                   /\ UNCHANGED session_file
              ELSE IF groups = <<>> \/ (prompted /\ ~valid)
              THEN /\ cmd' = [cmd EXCEPT !.pc = Handler("Exit"), !.exc = "Exit",
                                         !.choice = asked]
                   /\ UNCHANGED session_file
              ELSE /\ cmd' = [cmd EXCEPT !.pc = "lookup", !.group_id = selected,
                                         !.choice = asked]
                   /\ session_file' = selected
    /\ UNCHANGED <<solverVars, callVars, database, db, log>>

\* db.query(Group).filter_by(id=group_id).first()
GroupExists(rows, g) == \E k \in 1..Len(rows.groups) : rows.groups[k] = g

\* The session file left as it was.
keep_active_group(stored) == stored

\* The session file after clear_active_group(): none.
clear_active_group(stored) == 0

\* get_db_and_group, from the query of the group to the yield.
YieldGroup ==
    /\ cmd.pc = "lookup"
    /\ IF GroupExists(db, cmd.group_id)
       THEN /\ cmd' = [cmd EXCEPT !.pc = "body", !.ran_body = TRUE]
            /\ UNCHANGED session_file
       ELSE /\ cmd' = [cmd EXCEPT !.pc = Handler("Exit"), !.exc = "Exit"]
            /\ session_file' = clear_active_group(session_file)
    /\ UNCHANGED <<solverVars, callVars, database, db, log>>

\* get_db_and_group after the body completed: db.commit().
ManagerCommit ==
    /\ cmd.pc = "commit"
    /\ database' = db
    /\ log' = Append(log, Call("commit", "get_db_and_group"))
    /\ cmd' = [cmd EXCEPT !.pc = "close"]
    /\ UNCHANGED <<solverVars, callVars, session_file, db>>

\* except Exception as e: db.rollback(); raise e
ManagerRollback ==
    /\ cmd.pc = "except"
    /\ db' = database
    /\ log' = Append(log, Call("rollback", "get_db_and_group"))
    /\ cmd' = [cmd EXCEPT !.pc = "close", !.exc = Reraise(cmd.exc)]
    /\ UNCHANGED <<solverVars, callVars, session_file, database>>

\* finally: db.close()
ManagerClose ==
    /\ cmd.pc = "close"
    /\ db' = database
    /\ log' = Append(log, Call("close", "get_db_and_group"))
    /\ cmd' = [cmd EXCEPT !.pc = "exited"]
    /\ UNCHANGED <<solverVars, callVars, session_file, database>>

\* A lookup that finds no member.
NoMembersNamed(rows, name, g) == {}

\* The members of group g in `rows` bearing the name.
MembersNamed(rows, name, g) == {m \in rows.members : m.name = name /\ m.group_id = g}

\* sum(Expense.amount) where paid_by_id == m.id and group_id == g
total_paid(rows, m, g) ==
    LET S == {e \in rows.expenses : e.paid_by_id = m.id /\ e.group_id = g}
    IN  SumOver(S, [e \in S |-> e.amount])

\* sum(ExpenseSplit.share_amount), joined to the expenses of group g,
\* where member_id == m.id
total_owed(rows, m, g) ==
    LET S == {x \in rows.splits :
                 /\ x.member_id = m.id
                 /\ \E e \in rows.expenses : e.id = x.expense_id /\ e.group_id = g}
    IN  SumOver(S, [x \in S |-> x.share_amount])

\* sum(Payment.amount) where to_id == m.id, taken for from_id.
repaid_to(rows, m, g) ==
    LET S == {p \in rows.payments : p.to_id = m.id /\ p.group_id = g}
    IN  SumOver(S, [p \in S |-> p.amount])

\* sum(Payment.amount) where from_id == m.id and group_id == g
repaid(rows, m, g) ==
    LET S == {p \in rows.payments : p.from_id = m.id /\ p.group_id = g}
    IN  SumOver(S, [p \in S |-> p.amount])

\* The payments to a member left out of the tally.
received_nothing(rows, m, g) == 0

\* sum(Payment.amount) where to_id == m.id and group_id == g
received(rows, m, g) ==
    LET S == {p \in rows.payments : p.to_id = m.id /\ p.group_id = g}
    IN  SumOver(S, [p \in S |-> p.amount])

\* net = (total_paid + repaid) - (total_owed + received)
net(rows, m, g) ==
    (total_paid(rows, m, g) + repaid(rows, m, g))
        - (total_owed(rows, m, g) + received(rows, m, g))

\* The members of group g as rows.sort(key=lambda r: r[0].lower()) leaves them.
SortedMembers(rows, g) ==
    LET present == SelectSeq([n \in 1..Len(MemberNames) |-> MemberNames[n]],
                             LAMBDA name : MembersNamed(rows, name, g) # {})
    IN  [k \in 1..Len(present) |-> CHOOSE m \in MembersNamed(rows, present[k], g) : TRUE]

\* splits._min_cash_flow_settlements(balances): the copy of the solver in
\* splits.py, statement by statement.
_min_cash_flow_settlements(bal) ==
    LET eps == Cent
        b == [k \in 1..Len(bal) |-> IF Abs(bal[k]) < eps THEN 0 ELSE Round2(bal[k])]
        items == [k \in 1..Len(b) |-> <<k, b[k]>>]
        positive == SelectSeq(items, LAMBDA p : p[2] > 0)
        negative == SelectSeq(items, LAMBDA p : p[2] < 0)
        owing == [n \in 1..Len(negative) |-> <<negative[n][1], -negative[n][2]>>]
        RECURSIVE sort(_)
        sort(s) ==
            IF s = <<>> THEN <<>>
            ELSE LET rest == sort(SubSeq(s, 1, Len(s) - 1))
                     x == s[Len(s)]
                     at == Cardinality({n \in 1..Len(rest) : rest[n][2] >= x[2]})
                 IN  SubSeq(rest, 1, at) \o <<x>> \o SubSeq(rest, at + 1, Len(rest))
        RECURSIVE while(_, _, _, _, _)
        while(ds, cs, di, cj, out) ==
            IF ~(di < Len(ds) /\ cj < Len(cs)) THEN out
            ELSE LET d_name == ds[di + 1][1]
                     d_amt == ds[di + 1][2]
                     c_name == cs[cj + 1][1]
                     c_amt == cs[cj + 1][2]
                     pay == Round2(Min(d_amt, c_amt))
                     d_rem == Round2(d_amt - pay)
                     c_rem == Round2(c_amt - pay)
                 IN  while([ds EXCEPT ![di + 1] = <<d_name, d_rem>>],
                           [cs EXCEPT ![cj + 1] = <<c_name, c_rem>>],
                           IF d_rem <= eps THEN di + 1 ELSE di,
                           IF c_rem <= eps THEN cj + 1 ELSE cj,
                           IF pay >= eps THEN Append(out, <<d_name, c_name, pay>>) ELSE out)
    IN  IF positive = <<>> \/ negative = <<>> THEN <<>>
        ELSE while(sort(owing), sort(positive), 0, 0, <<>>)

\* `split show`: the tallies, the balances handed to the solver and the
\* settlements it suggests.
ShowBody ==
    /\ cmd.pc = "body"
    /\ cmd.name = "show"
    /\ LET rows == SortedMembers(db, cmd.group_id)
           handed == [k \in 1..Len(rows) |-> RoundNudged(net(db, rows[k], cmd.group_id))]
       IN  /\ cmd' = [cmd EXCEPT !.pc = "commit", !.loc = [k \in 1..Len(rows) |-> rows[k].id]]
           /\ balances' = handed
           /\ res' = _min_cash_flow_settlements(handed)
    /\ UNCHANGED <<creditors, debtors, i, j, pc, iters, callVars, session_file, database, db, log>>

\* `split payment FROM TO AMOUNT`
PaymentBody ==
    /\ cmd.pc = "body"
    /\ cmd.name = "payment"
    /\ LET payer == MembersNamed(db, cmd.args.from_member, cmd.group_id)
           recipient == MembersNamed(db, cmd.args.to_member, cmd.group_id)
       IN  IF payer = {} \/ recipient = {}
           THEN /\ cmd' = [cmd EXCEPT !.pc = Handler("Exit"), !.exc = "Exit",
                                      !.body_exc = "Exit"]
                /\ UNCHANGED <<db, log>>
           ELSE /\ db' = [db EXCEPT !.payments = @ \cup
                          {[id |-> Cardinality(db.payments) + 1,
                            from_id |-> (CHOOSE m \in payer : TRUE).id,
                            to_id |-> (CHOOSE m \in recipient : TRUE).id,
                            amount |-> cmd.args.amount,
                            group_id |-> cmd.group_id]}]
                /\ log' = Append(log, Call("add", "payment"))
                /\ cmd' = [cmd EXCEPT !.pc = "commit"]
    /\ UNCHANGED <<solverVars, callVars, session_file, database>>

\* The amounts of repayments: 0.004, 0.01 and 0.015.
PaymentAmounts == {4, Cent, Cent + 5}

\* The commands that read and extend the ledger.
LedgerCommands(rows, stored) ==
    {NewCommand("show", <<>>, rows, stored)}
        \cup {NewCommand("payment", [from_member |-> f, to_member |-> t, amount |-> a],
                         rows, stored) :
                 f \in IF Cardinality(rows.payments) < MaxPayments THEN TypedNames ELSE {},
                 t \in TypedNames, a \in PaymentAmounts}

\* Every group exists with its members and its expense; a group is active.
InitLedger ==
    /\ balances = <<>>
    /\ creditors = <<>>
    /\ debtors = <<>>
    /\ i = 0
    /\ j = 0
    /\ res = <<>>
    /\ pc = "call"
    /\ iters = 0
    /\ calls = <<>>
    /\ frames = <<>>
    /\ session_file \in GroupIds
    /\ database = Ledger([g \in GroupIds |-> g])
    /\ db = database
    /\ cmd \in LedgerCommands(database, session_file)
    /\ log = <<>>

\* The next command is typed once the last one has exited.
NextCommand ==
    /\ cmd.pc = "exited"
    /\ cmd' \in LedgerCommands(database, session_file)
    /\ log' = <<>>
    /\ UNCHANGED <<solverVars, callVars, session_file, database, db>>

LedgerNext ==
    \/ ResolveOrPromptGroup
    \/ YieldGroup
    \/ ShowBody
    \/ PaymentBody
    \/ ManagerCommit
    \/ ManagerRollback
    \/ ManagerClose
    \/ NextCommand

LedgerSpec == InitLedger /\ [][LedgerNext]_vars

\* The orders in which the groups of a set can stand in the groups table.
Orders(S) == {q \in [1..Cardinality(S) -> S] : \A a, b \in DOMAIN q : a # b => q[a] # q[b]}

\* The groups table: any of the groups, in any order.
GroupTables == UNION {Orders(S) : S \in SUBSET GroupIds}

\* The session file: absent (0), or the id of a group selected in this
\* directory, which another directory may since have deleted.
StoredIds == {0} \cup GroupIds

\* Any groups table and any session file at the first command.
InitSession ==
    /\ balances = <<>>
    /\ creditors = <<>>
    /\ debtors = <<>>
    /\ i = 0
    /\ j = 0
    /\ res = <<>>
    /\ pc = "call"
    /\ iters = 0
    /\ calls = <<>>
    /\ frames = <<>>
    /\ session_file \in StoredIds
    /\ \E groups \in GroupTables : database = Ledger(groups)
    /\ db = database
    /\ cmd \in LedgerCommands(database, session_file)
    /\ log = <<>>

SessionNext ==
    \/ ResolveOrPromptGroup
    \/ YieldGroup
    \/ ShowBody
    \/ PaymentBody
    \/ ManagerCommit
    \/ ManagerRollback
    \/ ManagerClose
    \/ NextCommand

SessionSpec == InitSession /\ [][SessionNext]_vars

(* ----------------------------- expense delete --------------------------- *)

\* sessionmaker(autocommit=True): every statement stored as it is executed.
AutocommitOn == TRUE

\* sessionmaker(autocommit=False, ...)
Autocommit == FALSE

\* The expense of any group with the id, taken for the active group's.
FindExpenseAnyGroup(rows, id, g) == {e \in rows.expenses : e.id = id}

\* db.query(Expense).filter(Expense.id == expense_id, Expense.group_id == group.id)
FindExpense(rows, id, g) == {e \in rows.expenses : e.id = id /\ e.group_id = g}

\* The old splits left in place.
WithSplits(rows, expense) == rows

\* db.query(ExpenseSplit).filter_by(expense_id=expense.id).delete()
WithoutSplits(rows, expense) ==
    [rows EXCEPT !.splits = {x \in @ : x.expense_id # expense.id}]

\* db.delete(expense)
WithoutExpense(rows, expense) == [rows EXCEPT !.expenses = @ \ {expense}]

\* The statement of the try block at which the database fails, if any.
Failures == {"none", "splits", "expense", "commit"}

\* `expense delete EXPENSE_ID [--yes]`
DeleteBody ==
    /\ cmd.pc = "body"
    /\ cmd.name = "delete"
    /\ \E confirm \in BOOLEAN, fail \in Failures :
          LET found == FindExpense(db, cmd.args.expense_id, cmd.group_id)
              expense == CHOOSE e \in found : TRUE
              declined == ~cmd.args.yes /\ ~confirm
              afterSplits == WithoutSplits(db, expense)
              afterExpense == WithoutExpense(afterSplits, expense)
              reached == CASE fail = "splits" -> db
                           [] fail = "expense" -> afterSplits
                           [] OTHER -> afterExpense
              attempted == CASE fail = "splits" -> <<"delete_splits">>
                             [] fail = "expense" -> <<"delete_splits", "delete_expense">>
                             [] OTHER -> <<"delete_splits", "delete_expense", "commit">>
              made == [k \in 1..Len(attempted) |-> Call(attempted[k], "delete")]
              answers == [confirm |-> confirm, fail |-> fail]
          IN  IF found = {} \/ declined
              THEN /\ cmd' = [cmd EXCEPT !.pc = Handler("Exit"), !.exc = "Exit",
                                         !.body_exc = "Exit", !.loc = answers]
                   /\ UNCHANGED <<database, db, log>>
              ELSE IF fail = "none"
              THEN /\ database' = afterExpense
                   /\ db' = afterExpense
                   /\ log' = log \o made
                   /\ cmd' = [cmd EXCEPT !.pc = "commit", !.loc = answers]
              ELSE /\ database' = (IF Autocommit THEN reached ELSE database)
                   /\ db' = database'
                   /\ log' = (log \o made) \o <<Call("rollback", "delete")>>
                   /\ cmd' = [cmd EXCEPT !.pc = Handler("Exit"), !.exc = "Exit",
                                         !.body_exc = "Exit", !.code = 1,
                                         !.loc = answers]
    /\ UNCHANGED <<solverVars, callVars, session_file>>

\* The invocations of `expense delete`: ids of expenses and ids of none.
DeleteCommands(rows, stored) ==
    {NewCommand("delete", [expense_id |-> id, yes |-> yes], rows, stored) :
        id \in 0..MaxGroups + 1, yes \in BOOLEAN}

\* Every group exists with its members and its expense; a group is active.
InitDelete ==
    /\ balances = <<>>
    /\ creditors = <<>>
    /\ debtors = <<>>
    /\ i = 0
    /\ j = 0
    /\ res = <<>>
    /\ pc = "call"
    /\ iters = 0
    /\ calls = <<>>
    /\ frames = <<>>
    /\ session_file \in GroupIds
    /\ database = Ledger([g \in GroupIds |-> g])
    /\ db = database
    /\ cmd \in DeleteCommands(database, session_file)
    /\ log = <<>>

\* The next `expense delete` is typed once the last one has exited.
NextDelete ==
    /\ cmd.pc = "exited"
    /\ cmd' \in DeleteCommands(database, session_file)
    /\ log' = <<>>
    /\ UNCHANGED <<solverVars, callVars, session_file, database, db>>

DeleteNext ==
    \/ ResolveOrPromptGroup
    \/ YieldGroup
    \/ DeleteBody
    \/ ManagerCommit
    \/ ManagerRollback
    \/ ManagerClose
    \/ NextDelete

DeleteSpec == InitDelete /\ [][DeleteNext]_vars

(* ------------------------------ expense edit --------------------------- *)

\* float("nan"): the value that is no number, apart from every amount in mils.
NaN == -1000000

\* The numerals typed or shown, and the floats they denote, in mils.
Floats ==
    { <<"0", 0>>, <<"0.014", 14>>, <<"0.02", 2 * Cent>>, <<"0.03", 3 * Cent>>,
      <<"0.034", 3 * Cent + 4>>, <<"-0.01", -Cent>>, <<"nan", NaN>> }

\* float(s) raises no ValueError.
IsFloat(s) == \E p \in Floats : p[1] = s

\* float(s)
float(s) == (CHOOSE p \in Floats : p[1] = s)[2]

\* str(x) of a float
str(x) == (CHOOSE p \in Floats : p[2] = x)[1]

\* x <= y and x < y on floats: false when either is nan.
FloatLE(x, y) == x # NaN /\ y # NaN /\ x <= y
FloatLT(x, y) == x # NaN /\ y # NaN /\ x < y

\* x != y on floats: true when either is nan.
FloatNE(x, y) == x = NaN \/ y = NaN \/ x # y

\* round(x, 2) of a float: nan stays nan.
RoundFloat(x) == IF x = NaN THEN NaN ELSE Round2(x)

\* The dates datetime.fromisoformat accepts, and the day each denotes.
IsoDates == { <<"2024-01-01", "2024-01-01">>, <<"2024-02-02", "2024-02-02">>,
              <<"20240202", "2024-02-02">> }

\* datetime.fromisoformat(s) raises no ValueError.
IsIsoDate(s) == \E p \in IsoDates : p[1] = s

\* datetime.fromisoformat(s), as the Date column keeps it.
fromisoformat(s) == (CHOOSE p \in IsoDates : p[1] = s)[2]

\* typer.prompt(text, default=default): an empty answer gives the default.
Prompted(answer, default) == IF answer = "" THEN default ELSE answer

\* The answers to the prompts for the fields: "" is the Enter key.
FieldAnswers ==
    [description : {"", "lunch"},
     amount : {"", "0.03", "0", "-0.01", "abc", "nan"},
     date : {"", "2024-02-02", "20240202", "2024-02-30"},
     payer : {"", MemberNames[2], Stranger}]

\* The answers to "Share amount".
ShareAnswers == {"", "0.014", "0.02", "-0.01", "abc"}

\* No answer given.
Unasked == [description |-> "", amount |-> "", date |-> "", payer |-> ""]
NoEntry == [member_name |-> "", share |-> ""]

\* The expense with every field assigned but paid_by_id.
EditedKeepingPayer(expense, description, amount, date, payer_id) ==
    [expense EXCEPT !.description = description, !.amount = RoundFloat(amount),
                    !.date = date]

\* expense.description = ...; expense.amount = round(new_amount, 2);
\* expense.date = ...; expense.paid_by_id = payer.id
Edited(expense, description, amount, date, payer_id) ==
    [expense EXCEPT !.description = description, !.amount = RoundFloat(amount),
                    !.date = date, !.paid_by_id = payer_id]

\* `expense edit EXPENSE_ID`, from the fetch of the expense to the payer.
EditFields ==
    /\ cmd.pc = "body"
    /\ cmd.name = "edit"
    /\ \E a \in FieldAnswers :
          LET found == FindExpense(db, cmd.args.expense_id, cmd.group_id)
              expense == CHOOSE e \in found : TRUE
              current_payer == {m \in db.members : m.id = expense.paid_by_id}
              current_payer_name == (CHOOSE m \in current_payer : TRUE).name
              new_amount_str == Prompted(a.amount, str(expense.amount))
              new_date_input == Prompted(a.date, expense.date)
              new_payer_name == Prompted(a.payer, current_payer_name)
              payer == IF new_payer_name # current_payer_name
                       THEN MembersNamed(db, new_payer_name, cmd.group_id)
                       ELSE current_payer
              asked == IF found = {} THEN Unasked
                       ELSE IF ~IsFloat(new_amount_str) \/ FloatLE(float(new_amount_str), 0)
                       THEN [a EXCEPT !.date = "", !.payer = ""]
                       ELSE IF ~IsIsoDate(new_date_input)
                       THEN [a EXCEPT !.payer = ""]
                       ELSE a
              exits == \/ found = {}
                       \/ ~IsFloat(new_amount_str)
                       \/ FloatLE(float(new_amount_str), 0)
                       \/ ~IsIsoDate(new_date_input)
                       \/ payer = {}
          IN  IF exits
              THEN cmd' = [cmd EXCEPT !.pc = Handler("Exit"), !.exc = "Exit",
                                      !.body_exc = "Exit",
                                      !.loc = [answers |-> asked, last |-> NoEntry,
                                               new_splits_input |-> <<>>]]
              ELSE cmd' = [cmd EXCEPT !.pc = "splits",
                                      !.loc = [answers |-> a, last |-> NoEntry,
                                               new_splits_input |-> <<>>,
                                               new_description |->
                                                   Prompted(a.description, expense.description),
                                               new_amount |-> float(new_amount_str),
                                               new_date |-> fromisoformat(new_date_input),
                                               payer_id |-> (CHOOSE m \in payer : TRUE).id]]
    /\ UNCHANGED <<solverVars, callVars, session_file, database, db, log>>

\* One turn of the loop that asks for a member name and a share.
EditSplitEntry ==
    /\ cmd.pc = "splits"
    /\ Len(cmd.loc.new_splits_input) < MaxNewSplits
    /\ \E member_name \in TypedNames, share \in ShareAnswers :
          LET member_obj == MembersNamed(db, member_name, cmd.group_id)
              share_str == Prompted(share, "0")
              entry == [member_id |-> (CHOOSE m \in member_obj : TRUE).id,
                        share_amount |-> RoundFloat(float(share_str))]
          IN  IF member_obj = {}
              THEN cmd' = [cmd EXCEPT !.pc = Handler("Exit"), !.exc = "Exit",
                                      !.body_exc = "Exit",
                                      !.loc.last = [member_name |-> member_name, share |-> ""]]
              ELSE IF ~IsFloat(share_str) \/ FloatLT(float(share_str), 0)
              THEN cmd' = [cmd EXCEPT !.pc = Handler("Exit"), !.exc = "Exit",
                                      !.body_exc = "Exit",
                                      !.loc.last = [member_name |-> member_name, share |-> share]]
              ELSE cmd' = [cmd EXCEPT !.loc.new_splits_input = Append(@, entry)]
    /\ UNCHANGED <<solverVars, callVars, session_file, database, db, log>>

\* The member name left empty: the edits are applied, the splits replaced if
\* any was entered, and the session committed.
EditApply ==
    /\ cmd.pc = "splits"
    /\ LET expense == CHOOSE e \in FindExpense(db, cmd.args.expense_id, cmd.group_id) : TRUE
           edited == Edited(expense, cmd.loc.new_description, cmd.loc.new_amount,
                            cmd.loc.new_date, cmd.loc.payer_id)
           entered == cmd.loc.new_splits_input
           total_new_splits ==
               Round2(SumOver(DOMAIN entered, [k \in DOMAIN entered |-> entered[k].share_amount]))
           applied == [db EXCEPT !.expenses = (@ \ {expense}) \cup {edited}]
           last_id == Cardinality(db.splits)
           added == {[id |-> last_id + k, expense_id |-> expense.id,
                      member_id |-> entered[k].member_id,
                      share_amount |-> entered[k].share_amount] : k \in DOMAIN entered}
           replaced == [WithoutSplits(applied, expense) EXCEPT !.splits = @ \cup added]
           adds == [k \in DOMAIN entered |-> Call("add", "edit")]
       IN  IF entered # <<>> /\ FloatNE(total_new_splits, edited.amount)
           THEN /\ db' = applied
                /\ cmd' = [cmd EXCEPT !.pc = Handler("Exit"), !.exc = "Exit",
                                      !.body_exc = "Exit"]
                /\ UNCHANGED <<database, log>>
           ELSE IF entered # <<>>
           THEN /\ db' = replaced
                /\ database' = replaced
                /\ log' = (log \o <<Call("delete_splits", "edit")>>) \o adds
                                \o <<Call("commit", "edit")>>
                /\ cmd' = [cmd EXCEPT !.pc = "commit"]
           ELSE /\ db' = applied
                /\ database' = applied
                /\ log' = Append(log, Call("commit", "edit"))
                /\ cmd' = [cmd EXCEPT !.pc = "commit"]
    /\ UNCHANGED <<solverVars, callVars, session_file>>

\* Every group exists with its members and its expense; a group is active;
\* `expense edit` is given the id of an expense or of none.
InitEdit ==
    /\ balances = <<>>
    /\ creditors = <<>>
    /\ debtors = <<>>
    /\ i = 0
    /\ j = 0
    /\ res = <<>>
    /\ pc = "call"
    /\ iters = 0
    /\ calls = <<>>
    /\ frames = <<>>
    /\ session_file \in GroupIds
    /\ database = Ledger([g \in GroupIds |-> g])
    /\ db = database
    /\ \E id \in 0..MaxGroups + 1 :
          cmd = NewCommand("edit", [expense_id |-> id], database, session_file)
    /\ log = <<>>

EditNext ==
    \/ ResolveOrPromptGroup
    \/ YieldGroup
    \/ EditFields
    \/ EditSplitEntry
    \/ EditApply
    \/ ManagerCommit
    \/ ManagerRollback
    \/ ManagerClose

EditSpec == InitEdit /\ [][EditNext]_vars

(* ------------------------- member add, member delete --------------------- *)

\* `member add NAME`
MemberAddBody ==
    /\ cmd.pc = "body"
    /\ cmd.name = "member add"
    /\ LET existing_member == MembersNamed(db, cmd.args.name, cmd.group_id)
           ids == {m.id : m \in db.members}
           new_id == 1 + (IF ids = {} THEN 0 ELSE CHOOSE x \in ids : \A y \in ids : y <= x)
       IN  IF existing_member # {}
           THEN /\ cmd' = [cmd EXCEPT !.pc = Handler("Exit"), !.exc = "Exit",
                                      !.body_exc = "Exit"]
                /\ UNCHANGED <<db, log>>
           ELSE /\ db' = [db EXCEPT !.members = @ \cup
                             {[id |-> new_id, name |-> cmd.args.name,
                               group_id |-> cmd.group_id]}]
                /\ log' = Append(log, Call("add", "member add"))
                /\ cmd' = [cmd EXCEPT !.pc = "commit"]
    /\ UNCHANGED <<solverVars, callVars, session_file, database>>

\* `member delete NAME`: the row is deleted and the rows that referred to
\* the member refer to none (0).
MemberDeleteBody ==
    /\ cmd.pc = "body"
    /\ cmd.name = "member delete"
    /\ LET found == MembersNamed(db, cmd.args.name, cmd.group_id)
           member == CHOOSE m \in found : TRUE
           unless(id) == IF id = member.id THEN 0 ELSE id
       IN  IF found = {}
           THEN /\ cmd' = [cmd EXCEPT !.pc = Handler("Exit"), !.exc = "Exit",
                                      !.body_exc = "Exit"]
                /\ UNCHANGED <<db, log>>
           ELSE /\ db' = [db EXCEPT
                            !.members = @ \ {member},
                            !.expenses = {[e EXCEPT !.paid_by_id = unless(@)] : e \in @},
                            !.splits = {[x EXCEPT !.member_id = unless(@)] : x \in @},
                            !.payments = {[p EXCEPT !.from_id = unless(@),
                                                    !.to_id = unless(@)] : p \in @}]
                /\ log' = Append(log, Call("delete", "member delete"))
                /\ cmd' = [cmd EXCEPT !.pc = "commit"]
    /\ UNCHANGED <<solverVars, callVars, session_file, database>>

\* The invocations of `member add` and `member delete`; no more `member add`
\* once MaxNewMembers ids were given out.
MemberCommands(rows, stored) ==
    LET spent == \E m \in rows.members : m.id >= Len(MemberNames) * MaxGroups + MaxNewMembers
    IN  {NewCommand(name, [name |-> typed], rows, stored) :
            name \in {"member delete"} \cup (IF spent THEN {} ELSE {"member add"}),
            typed \in TypedNames}

\* Every group exists with its members and its expense; a group is active.
InitMember ==
    /\ balances = <<>>
    /\ creditors = <<>>
    /\ debtors = <<>>
    /\ i = 0
    /\ j = 0
    /\ res = <<>>
    /\ pc = "call"
    /\ iters = 0
    /\ calls = <<>>
    /\ frames = <<>>
    /\ session_file \in GroupIds
    /\ database = Ledger([g \in GroupIds |-> g])
    /\ db = database
    /\ cmd \in MemberCommands(database, session_file)
    /\ log = <<>>

\* The next member command is typed once the last one has exited.
NextMemberCommand ==
    /\ cmd.pc = "exited"
    /\ cmd' \in MemberCommands(database, session_file)
    /\ log' = <<>>
    /\ UNCHANGED <<solverVars, callVars, session_file, database, db>>

MemberNext ==
    \/ ResolveOrPromptGroup
    \/ YieldGroup
    \/ MemberAddBody
    \/ MemberDeleteBody
    \/ ManagerCommit
    \/ ManagerRollback
    \/ ManagerClose
    \/ NextMemberCommand

MemberSpec == InitMember /\ [][MemberNext]_vars

(* ---------- group create, select, delete and clear-session --------------- *)

\* The names given to groups.
GroupNames == {"trip", "flat"}

\* A group command that has run: what it was given, how it ended, and the
\* database and session file it found.
Ran(name, args, exc) ==
    [NewCommand(name, args, database, session_file) EXCEPT !.pc = "exited", !.exc = exc]

\* The ids of the groups of the given name: Group.name is unique.
GroupsNamed(rows, name) ==
    {rows.groups[k] : k \in {n \in 1..Len(rows.groups) : rows.names[rows.groups[n]] = name}}

\* `group create NAME`: the new row takes the next id of the sequence.
GroupCreate ==
    /\ cmd.pc = "exited"
    /\ \E name \in GroupNames :
          LET existing_group == GroupsNamed(database, name)
              new_id == database.group_id_seq + 1
              created == [database EXCEPT
                            !.groups = Append(@, new_id),
                            !.names = [g \in DOMAIN @ \cup {new_id} |->
                                          IF g = new_id THEN name ELSE @[g]],
                            !.group_id_seq = new_id]
          IN  IF existing_group # {}
              THEN /\ cmd' = Ran("group create", [name |-> name], "Exit")
                   /\ UNCHANGED <<session_file, database, db>>
              ELSE /\ new_id <= MaxGroups
                   /\ database' = created
                   /\ db' = created
                   /\ session_file' = new_id
                   /\ cmd' = Ran("group create", [name |-> name], "none")
    /\ UNCHANGED <<solverVars, callVars, log>>

\* `group select`
GroupSelect ==
    /\ cmd.pc = "exited"
    /\ \E choice \in Choices :
          LET groups == database.groups
              index == Index(choice.n)
              valid == choice.kind = "num" /\ 0 <= index /\ index < Len(groups)
          IN  IF groups = <<>>
              THEN /\ cmd' = Ran("group select", <<>>, "Exit")
                   /\ UNCHANGED session_file
              ELSE IF valid
              THEN /\ cmd' = Ran("group select", [choice |-> choice], "none")
                   /\ session_file' = groups[index + 1]
              ELSE /\ cmd' = Ran("group select", [choice |-> choice], "Exit")
                   /\ UNCHANGED session_file
    /\ UNCHANGED <<solverVars, callVars, database, db, log>>

\* `group clear-session`
GroupClearSession ==
    /\ cmd.pc = "exited"
    /\ session_file' = clear_active_group(session_file)
    /\ cmd' = Ran("group clear-session", <<>>, "none")
    /\ UNCHANGED <<solverVars, callVars, database, db, log>>

\* `group delete NAME`: the session is cleared if the group is the active
\* one; the row goes with its members, expenses and payments, and the splits
\* of its expenses refer to no expense (0).
GroupDelete ==
    /\ cmd.pc = "exited"
    /\ \E name \in GroupNames :
          LET found == GroupsNamed(database, name)
              group == CHOOSE g \in found : TRUE
              gone == {e.id : e \in {x \in database.expenses : x.group_id = group}}
              deleted == [database EXCEPT
                            !.groups = SelectSeq(@, LAMBDA g : g # group),
                            !.names = [g \in DOMAIN @ \ {group} |-> @[g]],
                            !.members = {m \in @ : m.group_id # group},
                            !.expenses = {e \in @ : e.group_id # group},
                            !.payments = {p \in @ : p.group_id # group},
                            !.splits = {[x EXCEPT !.expense_id =
                                            IF @ \in gone THEN 0 ELSE @] : x \in @}]
          IN  IF found = {}
              THEN /\ cmd' = Ran("group delete", [name |-> name], "Exit")
                   /\ UNCHANGED <<session_file, database, db>>
              ELSE /\ session_file' = (IF group = session_file
                                       THEN clear_active_group(session_file)
                                       ELSE session_file)
                   /\ database' = deleted
                   /\ db' = deleted
                   /\ cmd' = Ran("group delete", [name |-> name], "none")
    /\ UNCHANGED <<solverVars, callVars, log>>

\* No group yet, the id sequence of the groups table unused, no session file.
InitGroup ==
    /\ balances = <<>>
    /\ creditors = <<>>
    /\ debtors = <<>>
    /\ i = 0
    /\ j = 0
    /\ res = <<>>
    /\ pc = "call"
    /\ iters = 0
    /\ calls = <<>>
    /\ frames = <<>>
    /\ session_file = 0
    /\ database = [groups |-> <<>>, names |-> <<>>, group_id_seq |-> 0,
                    members |-> {}, expenses |-> {}, splits |-> {}, payments |-> {}]
    /\ db = database
    /\ cmd = NoCommand
    /\ log = <<>>

GroupNext ==
    \/ GroupCreate
    \/ GroupSelect
    \/ GroupClearSession
    \/ GroupDelete

GroupSpec == InitGroup /\ [][GroupNext]_vars

(* ------------------------------ settling up ----------------------------- *)

\* The rows after `expense add --amount a --paid-by p` in group g, split
\* with the one member q.
WithDebt(rows, g, p, q, a) ==
    [rows EXCEPT
        !.expenses = @ \cup {[id |-> Cardinality(rows.expenses) + 1, group_id |-> g,
                              description |-> "taxi", amount |-> a, date |-> "2024-02-02",
                              paid_by_id |-> MemberId(g, p)]},
        !.splits = @ \cup {[id |-> Cardinality(rows.splits) + 1,
                            expense_id |-> Cardinality(rows.expenses) + 1,
                            member_id |-> MemberId(g, q), share_amount |-> a]}]

\* `split payment debtor creditor amount` for the k-th line
\* "{debtor} pays {creditor} {money(amount)}" of the last `split show`.
PaymentOf(k, rows, stored) ==
    LET shown == SortedMembers(rows, stored)
    IN  NewCommand("payment",
                   [from_member |-> shown[res[k][1]].name,
                    to_member |-> shown[res[k][2]].name,
                    amount |-> RoundNudged(res[k][3]), line |-> k],
                   rows, stored)

\* A group has its first expense and perhaps a second one, owed by one
\* member; `split show` is run on it.
InitSettle ==
    /\ balances = <<>>
    /\ creditors = <<>>
    /\ debtors = <<>>
    /\ i = 0
    /\ j = 0
    /\ res = <<>>
    /\ pc = "call"
    /\ iters = 0
    /\ calls = <<>>
    /\ frames = <<>>
    /\ session_file \in GroupIds
    /\ \/ database = Ledger([g \in GroupIds |-> g])
       \/ \E p \in 1..Len(MemberNames), q \in 1..Len(MemberNames), a \in 1..MaxDebtCents :
             database = WithDebt(Ledger([g \in GroupIds |-> g]), session_file, p, q, a * Cent)
    /\ db = database
    /\ cmd = NewCommand("show", [again |-> FALSE], database, session_file)
    /\ log = <<>>

\* The user records every suggested transfer, one `split payment` per line
\* of the output, and runs `split show` again.
NextSettleCommand ==
    /\ cmd.pc = "exited"
    /\ \/ /\ cmd.name = "show"
          /\ ~cmd.args.again
          /\ cmd' = IF res # <<>>
                    THEN PaymentOf(1, database, session_file)
                    ELSE NewCommand("show", [again |-> TRUE], database, session_file)
       \/ /\ cmd.name = "payment"
          /\ cmd' = IF cmd.args.line < Len(res)
                    THEN PaymentOf(cmd.args.line + 1, database, session_file)
                    ELSE NewCommand("show", [again |-> TRUE], database, session_file)
    /\ log' = <<>>
    /\ UNCHANGED <<solverVars, callVars, session_file, database, db>>

SettleNext ==
    \/ ResolveOrPromptGroup
    \/ YieldGroup
    \/ ShowBody
    \/ PaymentBody
    \/ ManagerCommit
    \/ ManagerClose
    \/ NextSettleCommand

SettleSpec == InitSettle /\ [][SettleNext]_vars

(* ----------------------- expense add, expense show ---------------------- *)

\* A member added to every group after the others.
Newcomer == "dan"

\* split_amount = round(amount / len(members), 2): the whole cent nearest to
\* amount / n; the halves that the amounts used here meet (0.005, 0.025) lie
\* above the half as floats and round up.
EqualShare(amount, n) == Cent * ((2 * amount + n * Cent) \div (2 * n * Cent))

\* `expense show`: the footer flags a mismatch unless
\* abs(round(total_shares - expense.amount, 2)) < 0.01.
SplitsMismatch(rows, expense) ==
    LET S == {x \in rows.splits : x.expense_id = expense.id}
        total_shares == SumOver(S, [x \in S |-> x.share_amount])
        delta == Round2(total_shares - expense.amount)
    IN  ~(Abs(delta) < Eps)

\* `expense add --amount A --paid-by P`, with the names typed at the prompt.
AddBody ==
    /\ cmd.pc = "body"
    /\ cmd.name = "expense add"
    /\ \E count \in 0..MaxTypedNames :
       \E typed \in [1..count -> TypedNames \cup {Newcomer}] :
       \E namesake \in BOOLEAN :
          LET amount == cmd.args.amount
              payer == MembersNamed(db, cmd.args.paid_by, cmd.group_id)
              \* .first() of the members of the name, of any group
              elsewhere(name) == \E m \in db.members : m.name = name /\ m.group_id # cmd.group_id
              is_payer(name) == name = cmd.args.paid_by /\ ~(namesake /\ elsewhere(name))
              exists(name) == \E m \in db.members : m.name = name
              listed == SelectSeq(typed, LAMBDA name : exists(name) /\ ~is_payer(name))
              split_between == IF listed # <<>> THEN listed ELSE <<cmd.args.paid_by>>
              members == {m \in db.members :
                             /\ m.group_id = cmd.group_id
                             /\ \E k \in DOMAIN split_between : split_between[k] = m.name}
              split_amount == EqualShare(amount, Cardinality(members))
              expense == [id |-> Cardinality(db.expenses) + 1, group_id |-> cmd.group_id,
                          description |-> "taxi", amount |-> amount, date |-> "2024-02-02",
                          paid_by_id |-> (CHOOSE m \in payer : TRUE).id]
              \* for member in members: one split each, in the order of the rows
              nth(m) == Cardinality({o \in members : o.id <= m.id})
              added == {[id |-> Cardinality(db.splits) + nth(m), expense_id |-> expense.id,
                         member_id |-> m.id, share_amount |-> split_amount] : m \in members}
              answers == [typed |-> typed, namesake |-> namesake /\ elsewhere(cmd.args.paid_by),
                          split_between |-> split_between]
          IN  IF amount <= 0 \/ payer = {}
              THEN /\ cmd' = [cmd EXCEPT !.pc = Handler("Exit"), !.exc = "Exit",
                                         !.body_exc = "Exit"]
                   /\ UNCHANGED <<database, db, log>>
              ELSE IF Cardinality(members) # Len(split_between)
              THEN /\ cmd' = [cmd EXCEPT !.pc = Handler("Exit"), !.exc = "Exit",
                                         !.body_exc = "Exit", !.loc = answers]
                   /\ UNCHANGED <<database, db, log>>
              ELSE /\ database' = [db EXCEPT !.expenses = @ \cup {expense}]
                   /\ db' = [db EXCEPT !.expenses = @ \cup {expense},
                                       !.splits = @ \cup added]
                   /\ log' = (log \o <<Call("add", "expense add"),
                                        Call("commit", "expense add")>>)
                                \o [k \in 1..Cardinality(members) |-> Call("add", "expense add")]
                   /\ cmd' = [cmd EXCEPT !.pc = "commit", !.loc = answers]
    /\ UNCHANGED <<solverVars, callVars, session_file>>

\* The amounts given to `expense add`: 0, 0.02 and 0.10.
AddAmounts == {0, 2 * Cent, Cent * Cent}

\* Every group has its members, the newcomer and its expense; a group is
\* active; `expense add` is given an amount and a payer.
InitAdd ==
    /\ balances = <<>>
    /\ creditors = <<>>
    /\ debtors = <<>>
    /\ i = 0
    /\ j = 0
    /\ res = <<>>
    /\ pc = "call"
    /\ iters = 0
    /\ calls = <<>>
    /\ frames = <<>>
    /\ session_file \in GroupIds
    /\ database = [Ledger([g \in GroupIds |-> g]) EXCEPT
                      !.members = @ \cup {[id |-> Len(MemberNames) * MaxGroups + g,
                                           name |-> Newcomer, group_id |-> g] : g \in GroupIds}]
    /\ db = database
    /\ \E amount \in AddAmounts, paid_by \in {MemberNames[1], MemberNames[2], Stranger} :
          cmd = NewCommand("expense add", [amount |-> amount, paid_by |-> paid_by],
                           database, session_file)
    /\ log = <<>>

AddNext ==
    \/ ResolveOrPromptGroup
    \/ YieldGroup
    \/ AddBody
    \/ ManagerCommit
    \/ ManagerRollback
    \/ ManagerClose

AddSpec == InitAdd /\ [][AddNext]_vars

(* ------------------------------ properties ------------------------------ *)

\* Every balance of the input is a whole number of cents.
WholeCents == \A k \in Members : balances[k] % Cent = 0

\* C1 (Conservation), on the inputs of whole cents that sum to zero: the
\* amounts returned add up to the total of the positive balances and to the
\* total of the absolute negative balances, within 0.01.
C1_Conservation ==
    (pc = "done" /\ WholeCents /\ Balanced) =>
        /\ Abs(TotalPaid - TotalPositive) <= Eps
        /\ Abs(TotalPaid - TotalNegative) <= Eps

\* C2 (the transfers zero every balance): for an input whose cent balances sum
\* to zero, every member's cent balance plus what it pays minus what it
\* receives is within 0.01 of zero once the solver has returned.
C2_ZeroesEveryBalance ==
    (pc = "done" /\ Balanced) =>
        \A k \in Members : Abs(CentBalance[k] + PaidBy(k) - ReceivedBy(k)) <= Eps

\* C3 (No self-transfer): in every entry the debtor and the creditor are
\* different members.
C3_NoSelfTransfer == \A n \in Entries : res[n][1] # res[n][2]

C3_Witness == pc = "done" /\ Len(res) >= 3

\* C4 (Non-negativity): every returned amount is a whole number of cents and
\* is at least 0.01.
C4_AmountsPositiveCents ==
    \A n \in Entries : res[n][3] % Cent = 0 /\ res[n][3] >= Eps

\* A transfer of exactly one cent between two balances that carried noise.
C4_Witness ==
    /\ pc = "done"
    /\ \E n \in Entries : /\ res[n][3] = Eps
                          /\ balances[res[n][1]] % Cent # 0
                          /\ balances[res[n][2]] % Cent # 0

AllNonNegative == \A k \in Members : balances[k] >= 0

AllNonPositive == \A k \in Members : balances[k] <= 0

\* C5 as stated: if every balance has absolute value at most 0.01, or all
\* balances have the same sign, the result is empty.
C5_EmptinessAtMost ==
    ((\A k \in Members : Abs(balances[k]) <= Eps) \/ AllNonNegative \/ AllNonPositive)
        => res = <<>>

\* C5 (Emptiness), amended: if every balance has absolute value below 0.01, or
\* all balances have the same sign, the solver takes the early return and the
\* result is empty.
C5_Emptiness ==
    ((\A k \in Members : Abs(balances[k]) < Eps) \/ AllNonNegative \/ AllNonPositive)
        => (res = <<>> /\ pc # "loop")

\* Balances of both signs, all below one cent, and the solver has returned.
C5_Witness ==
    /\ pc = "done"
    /\ \E k \in Members : balances[k] > 0
    /\ \E k \in Members : balances[k] < 0
    /\ \A k \in Members : Abs(balances[k]) < Eps

\* C6 (Length bound): when there is a debtor and a creditor, the result never
\* has more than |debtors| + |creditors| - 1 entries.
C6_LengthBound ==
    (DebtorSet # {} /\ CreditorSet # {}) =>
        Len(res) <= Cardinality(DebtorSet) + Cardinality(CreditorSet) - 1

\* The bound is met with two debtors and two creditors.
C6_Witness ==
    /\ pc = "done"
    /\ Cardinality(DebtorSet) = 2
    /\ Cardinality(CreditorSet) = 2
    /\ Len(res) = 3

\* C7 (Termination and totality): every pass of the loop body advances a
\* cursor and never moves one back or past the end of its list, and the body
\* never runs more than |debtors| + |creditors| times, so the loop ends.
C7_Termination ==
    /\ [][iters' # iters => /\ (i' > i \/ j' > j)
                            /\ i' >= i /\ i' <= Len(debtors)
                            /\ j' >= j /\ j' <= Len(creditors)]_vars
    /\ [](iters <= Cardinality(DebtorSet) + Cardinality(CreditorSet))

\* The loop ran |debtors| + |creditors| - 1 times, three at least, and returned.
C7_Witness ==
    /\ pc = "done"
    /\ iters >= 3
    /\ iters = Cardinality(DebtorSet) + Cardinality(CreditorSet) - 1

\* The creditors' amounts never increase along the result.
CreditsDescending ==
    \A m, n \in Entries : m < n => CentBalance[res[m][2]] >= CentBalance[res[n][2]]

\* C8 (Single debtor drains sequentially): with exactly one debtor whose debt
\* equals the sum of the credits, the result has one entry per creditor, from
\* that debtor, in descending order of credit, each for the full credit.
C8_SingleDebtorDrains ==
    (pc = "done" /\ Cardinality(DebtorSet) = 1 /\ CreditorSet # {} /\ Balanced) =>
        /\ Len(res) = Cardinality(CreditorSet)
        /\ {res[n][2] : n \in Entries} = CreditorSet
        /\ \A n \in Entries : /\ res[n][1] \in DebtorSet
                              /\ res[n][3] = CentBalance[res[n][2]]
        /\ CreditsDescending

\* The amount a list holds for a member is the member's balance to the nearest cent.
NearestCent(amt, v) == amt % Cent = 0 /\ Abs(amt - Abs(v)) < 5

\* C9 (Epsilon zeroing and rounding): a member whose balance is below 0.01 in
\* absolute value is in no entry; every debtor of an entry has a negative
\* balance and every creditor a positive one; the amounts the matching starts
\* from are the balances rounded to whole cents; and -10.004 / +10.004 settle
\* with one transfer of exactly 10.00.
C9_EpsilonAndRounding ==
    /\ \A n \in Entries : /\ balances[res[n][1]] <= -Eps
                          /\ balances[res[n][2]] >= Eps
    /\ (pc = "loop" /\ iters = 0) =>
          /\ \A n \in 1..Len(debtors) : NearestCent(debtors[n][2], balances[debtors[n][1]])
          /\ \A n \in 1..Len(creditors) : NearestCent(creditors[n][2], balances[creditors[n][1]])
          /\ {debtors[n][1] : n \in 1..Len(debtors)} = {k \in Members : balances[k] <= -Eps}
          /\ {creditors[n][1] : n \in 1..Len(creditors)} = {k \in Members : balances[k] >= Eps}
    /\ (pc = "done" /\ balances = <<-10004, 10004>>) => res = << <<1, 2, 10000>> >>

\* A transfer has been returned although one member, below a cent on the
\* creditors' side, was zeroed, and the others carried noise that was rounded.
C9_Witness ==
    /\ pc = "done"
    /\ res # <<>>
    /\ \E k \in Members : balances[k] > 0 /\ balances[k] < Eps
    /\ \E k \in Members : balances[k] < -Eps /\ balances[k] % Cent # 0
    /\ \E k \in Members : balances[k] > Eps /\ balances[k] % Cent # 0

\* Largest number of groups, each summing to zero, into which the members of S
\* can be divided; member lo, the least of S, is in exactly one of them.
RECURSIVE MaxZeroGroups(_)
MaxZeroGroups(S) ==
    IF S = {} THEN 0
    ELSE LET lo == CHOOSE x \in S : \A y \in S : x <= y
             groups == {T \in SUBSET S : lo \in T /\ SumOver(T, CentBalance) = 0}
             best == {1 + MaxZeroGroups(S \ T) : T \in groups}
         IN  CHOOSE m \in best : \A n \in best : m >= n

\* The fewest transfers that settle balances summing to zero: a group of g
\* members that sums to zero needs g - 1 transfers and no fewer.
MinTransfers ==
    Cardinality(DebtorSet \cup CreditorSet) - MaxZeroGroups(DebtorSet \cup CreditorSet)

\* The returned transfers bring every member's cent balance to exactly zero.
Settled == \A k \in Members : CentBalance[k] + PaidBy(k) - ReceivedBy(k) = 0

\* C10 as stated, on the runs whose transfers do settle every balance: for an
\* input whose cent balances sum to zero the number of transfers returned is
\* the minimum number that settles all balances.
C10_MinimalPlan == (pc = "done" /\ Balanced /\ Settled) => Len(res) = MinTransfers

\* C10 (Minimal-transfer plan), amended: for an input whose cent balances sum
\* to zero and that has at most four members with a non-zero balance, the
\* solver never returns more transfers than the minimum.
C10_MinimalUpToFour ==
    (pc = "done" /\ Balanced /\ Cardinality(DebtorSet \cup CreditorSet) <= 4) =>
        Len(res) <= MinTransfers

\* Two debtors and two creditors that pair off exactly, settled in two transfers.
C10_Witness ==
    /\ pc = "done"
    /\ Balanced
    /\ Cardinality(DebtorSet) = 2
    /\ Cardinality(CreditorSet) = 2
    /\ MinTransfers = 2
    /\ Len(res) = 2

\* C11: the solver never modifies the mapping it is given and keeps no state
\* between calls: in every interleaving of several invocations the mappings
\* stay as they were and each invocation returns the sequence the solver
\* returns when run alone on its mapping.
C11_PurityUnderConcurrency ==
    /\ [][balances' = balances /\ \A t \in DOMAIN calls : calls'[t].arg = calls[t].arg]_vars
    /\ [](\A t \in DOMAIN calls :
            calls[t].pc = "done" => calls[t].ret = MinCashFlowSettlements(calls[t].arg))

\* Invocation 1 has returned two transfers or more while invocation 2 is in
\* the middle of its loop.
C11_Witness ==
    /\ DOMAIN calls = Calls
    /\ calls[1].arg = balances
    /\ calls[2].arg = Negated(balances)
    /\ calls[1].pc = "done"
    /\ Len(calls[1].ret) >= 2
    /\ calls[2].pc = "loop"
    /\ frames[2].res # <<>>
    /\ Len(frames[2].res) < Len(calls[1].ret)

\* `split show` has computed the balances it hands to the solver.
Shown == cmd.name = "show" /\ cmd.pc \in {"commit", "close", "exited"} /\ cmd.exc = "none"

\* The member whose balance is the k-th handed to the solver.
ShownMember(k) == CHOOSE m \in database.members : m.id = cmd.loc[k]

\* Over the rows of the active group: what m paid for expenses, what m owes
\* through splits, the repayments m made and the repayments m received.
PaidFor(m) ==
    LET E == {e \in database.expenses : e.group_id = cmd.group_id}
    IN  SumOver(E, [e \in E |-> IF e.paid_by_id = m.id THEN e.amount ELSE 0])

OwedViaSplits(m) ==
    LET X == {x \in database.splits :
                 \E e \in database.expenses :
                     e.id = x.expense_id /\ e.group_id = cmd.group_id}
    IN  SumOver(X, [x \in X |-> IF x.member_id = m.id THEN x.share_amount ELSE 0])

RepaymentsMade(m) ==
    LET P == {p \in database.payments : p.group_id = cmd.group_id}
    IN  SumOver(P, [p \in P |-> IF p.from_id = m.id THEN p.amount ELSE 0])

RepaymentsReceived(m) ==
    LET P == {p \in database.payments : p.group_id = cmd.group_id}
    IN  SumOver(P, [p \in P |-> IF p.to_id = m.id THEN p.amount ELSE 0])

\* v is the whole cent nearest to x, the upper one when x lies between two.
CentOf(v, x) == v % Cent = 0 /\ x - v < 5 /\ v - x <= 5

\* C12 as stated: the balance `split show` hands to the solver for a member is
\* (total paid + total received as repayment) minus (total owed via splits +
\* total repayments made), over the rows of the active group.  The statement
\* is read up to the rounding to whole cents of line 75.
C12_NetBalanceAsStated ==
    Shown =>
        \A k \in 1..Len(balances) :
            LET m == ShownMember(k)
            IN  CentOf(balances[k],
                       (PaidFor(m) + RepaymentsReceived(m))
                           - (OwedViaSplits(m) + RepaymentsMade(m)))

\* C12, amended: the balance `split show` hands to the solver for a member is
\* the whole cent nearest to (total paid + total repayments made) minus (total
\* owed via splits + total received as repayment), over the rows of the active
\* group; every member of the group is handed, each once.
C12_NetBalance ==
    Shown =>
        /\ {cmd.loc[k] : k \in 1..Len(cmd.loc)} =
               {m.id : m \in {x \in database.members : x.group_id = cmd.group_id}}
        /\ Len(balances) = Len(cmd.loc)
        /\ \A k, n \in 1..Len(cmd.loc) : cmd.loc[k] = cmd.loc[n] => k = n
        /\ \A k \in 1..Len(balances) :
               LET m == ShownMember(k)
               IN  CentOf(balances[k],
                          (PaidFor(m) + RepaymentsMade(m))
                              - (OwedViaSplits(m) + RepaymentsReceived(m)))

\* `split show` has run on a ledger that holds a repayment, and the balance of
\* a member who made or received it is not the sum of its tallies: it was
\* rounded to the cent.
C12_Witness ==
    /\ Shown
    /\ cmd.pc = "exited"
    /\ \E p \in database.payments :
          /\ p.group_id = cmd.group_id
          /\ p.from_id # p.to_id
          /\ \E k \in 1..Len(balances) :
                LET m == ShownMember(k)
                IN  /\ m.id = p.from_id
                    /\ balances[k] #
                          (PaidFor(m) + RepaymentsMade(m))
                              - (OwedViaSplits(m) + RepaymentsReceived(m))


\* What get_db_and_group itself called on the session, in order.
ManagerCalls ==
    LET own == SelectSeq(log, LAMBDA c : c.by = "get_db_and_group")
    IN  [k \in 1..Len(own) |-> own[k].op]

C14_StaleSession ==
    (cmd.pc = "exited" /\ cmd.group_id # 0 /\ ~GroupExists(cmd.before, cmd.group_id)) =>
        /\ session_file = 0
        /\ cmd.exc = "Exit"
        /\ ~cmd.ran_body
        /\ ManagerCalls = <<"rollback", "close">>
        /\ \A k \in 1..Len(log) : log[k].op # "commit"
        /\ database = cmd.before

\* The session file named a group that is not in a non-empty groups table.
C14_Witness ==
    /\ cmd.pc = "exited"
    /\ cmd.session0 # 0
    /\ cmd.group_id = cmd.session0
    /\ ~GroupExists(cmd.before, cmd.group_id)
    /\ cmd.before.groups # <<>>
    /\ session_file = 0

\* What resolve_or_prompt_group returned or raised, for the step that runs it.
ResolvedAs(stored, groups) ==
    LET n == Len(groups)
        picked == cmd'.choice.kind = "num" /\ cmd'.choice.n \in 1..n
    IN  IF stored # 0
        THEN cmd'.exc = "none" /\ cmd'.group_id = stored /\ session_file' = stored
        ELSE IF n = 1
        THEN cmd'.exc = "none" /\ cmd'.group_id = groups[1] /\ session_file' = groups[1]
        ELSE IF n > 1 /\ picked
        THEN /\ cmd'.exc = "none"
             /\ cmd'.group_id = groups[cmd'.choice.n]
             /\ session_file' = groups[cmd'.choice.n]
        ELSE cmd'.exc = "Exit" /\ cmd'.group_id = 0 /\ session_file' = 0

\* C15: resolve_or_prompt_group returns a stored active id as it is; with no
\* stored id it selects the only group, or of several groups the one at the
\* chosen 1-based position, and writes the id it returns to the session; with
\* no groups, or a choice that is not an integer in 1..n, it raises typer.Exit
\* and the session stays unset.
C15_ResolveOrPrompt ==
    [][(cmd.pc = "enter" /\ cmd'.pc # "enter") => ResolvedAs(session_file, db.groups)]_vars

\* With two groups and no session, the second position was chosen.
C15_Witness ==
    /\ cmd.pc = "lookup"
    /\ cmd.session0 = 0
    /\ Len(cmd.before.groups) = 2
    /\ cmd.choice = [kind |-> "num", n |-> 2]
    /\ cmd.group_id = cmd.before.groups[2]
    /\ session_file = cmd.group_id

\* What the body of `expense delete` called on the session, in order.
DeleteCalls ==
    LET own == SelectSeq(log, LAMBDA c : c.by = "delete")
    IN  [k \in 1..Len(own) |-> own[k].op]

\* The expense the command names, as it stood in the active group before.
Target == {e \in cmd.before.expenses :
              e.id = cmd.args.expense_id /\ e.group_id = cmd.group_id}

\* The splits of the named expense before the command.
TargetSplits == {x \in cmd.before.splits : \E e \in Target : x.expense_id = e.id}

\* The named expense and all its splits are stored / none of them is.
AllPresent == Target \subseteq database.expenses /\ TargetSplits \subseteq database.splits
AllGone == Target \cap database.expenses = {} /\ TargetSplits \cap database.splits = {}

\* The command reached the try block: the expense was found and not declined.
Attempted ==
    /\ cmd.name = "delete"
    /\ cmd.ran_body
    /\ cmd.pc # "body"
    /\ Target # {}
    /\ cmd.args.yes \/ cmd.loc.confirm

\* s is an initial part of t.
IsPrefix(s, t) == Len(s) <= Len(t) /\ \A k \in 1..Len(s) : s[k] = t[k]

\* C16: `expense delete` deletes the splits first, then the expense, then
\* commits once; when one of these steps fails the session is rolled back,
\* nothing is stored and the command exits with code 1; so afterwards either
\* the expense and all its splits are gone or all of them are still present.
C16_DeleteAllOrNothing ==
    Attempted =>
        /\ AllGone \/ AllPresent
        /\ IF cmd.loc.fail = "none"
           THEN /\ DeleteCalls = <<"delete_splits", "delete_expense", "commit">>
                /\ AllGone
                /\ cmd.body_exc = "none"
           ELSE /\ DeleteCalls # <<>>
                /\ DeleteCalls[Len(DeleteCalls)] = "rollback"
                /\ IsPrefix(SubSeq(DeleteCalls, 1, Len(DeleteCalls) - 1),
                            <<"delete_splits", "delete_expense", "commit">>)
                /\ database = cmd.before
                /\ AllPresent
                /\ cmd.exc = "Exit"
                /\ cmd.code = 1

\* The database failed at db.delete(expense), after the splits were deleted
\* in the session: the expense and its two splits are stored as before.
C16_Witness ==
    /\ Attempted
    /\ cmd.pc = "exited"
    /\ cmd.loc.fail = "expense"
    /\ DeleteCalls = <<"delete_splits", "delete_expense", "rollback">>
    /\ Cardinality(TargetSplits) = 2
    /\ AllPresent
    /\ cmd.code = 1

\* C17: `expense delete` changes nothing when the expense id is not in the
\* active group, or when confirmation is asked and declined: no expense or
\* split is deleted and nothing is committed; and no command deletes an
\* expense, or a split of an expense, of another group than the active one.
C17_DeleteFrame ==
    (cmd.name = "delete" /\ cmd.ran_body) =>
        /\ (cmd.pc # "body" /\ (Target = {} \/ ~(cmd.args.yes \/ cmd.loc.confirm))) =>
              /\ database = cmd.before
              /\ \A k \in 1..Len(log) :
                    log[k].op \notin {"commit", "delete_splits", "delete_expense"}
              /\ cmd.exc = "Exit"
        /\ \A e \in cmd.before.expenses :
              e.group_id # cmd.group_id =>
                 /\ e \in database.expenses
                 /\ \A x \in cmd.before.splits :
                       x.expense_id = e.id => x \in database.splits

\* With --yes, the id of the other group's expense was given: nothing changed.
C17_Witness ==
    /\ cmd.name = "delete"
    /\ cmd.pc = "exited"
    /\ cmd.ran_body
    /\ cmd.args.yes
    /\ Target = {}
    /\ \E e \in cmd.before.expenses : e.id = cmd.args.expense_id
    /\ database = cmd.before

\* The expense that `expense edit` names, as stored before and after.
Edit == cmd.name = "edit" /\ cmd.pc = "exited" /\ cmd.ran_body
Before == CHOOSE e \in Target : TRUE
After == CHOOSE e \in database.expenses : e.id = cmd.args.expense_id
SplitsOf(rows) == {x \in rows.splits : x.expense_id = cmd.args.expense_id}

\* What was typed, with the defaults that the Enter key stands for.
TypedDescription == Prompted(cmd.loc.answers.description, Before.description)
TypedAmount == Prompted(cmd.loc.answers.amount, str(Before.amount))
TypedDate == Prompted(cmd.loc.answers.date, Before.date)
TypedPayer ==
    Prompted(cmd.loc.answers.payer,
             (CHOOSE m \in cmd.before.members : m.id = Before.paid_by_id).name)
Entered == cmd.loc.new_splits_input

\* The edit went through: the body returned.
Succeeded == Edit /\ Target # {} /\ cmd.body_exc = "none"

\* The calls of the body of `expense edit` on the session.
EditCalls ==
    LET own == SelectSeq(log, LAMBDA c : c.by = "edit")
    IN  [k \in 1..Len(own) |-> own[k].op]

\* C18: after a successful edit in which at least one new split was entered,
\* the stored splits of the expense are exactly the entries of the list of new
\* splits, member by member and share by share, none of the old splits is
\* left, and the shares sum, rounded to 2 decimals, to the stored new amount.
C18_EditReplacesSplits ==
    (Succeeded /\ Entered # <<>>) =>
        LET stored == SplitsOf(database)
        IN  /\ stored \cap cmd.before.splits = {}
            /\ Cardinality(stored) = Len(Entered)
            /\ \A k \in DOMAIN Entered :
                  Cardinality({x \in stored : /\ x.member_id = Entered[k].member_id
                                               /\ x.share_amount = Entered[k].share_amount})
                    = Cardinality({n \in DOMAIN Entered : Entered[n] = Entered[k]})
            /\ Round2(SumOver(stored, [x \in stored |-> x.share_amount])) = After.amount
            /\ After.amount = RoundFloat(float(TypedAmount))

\* The amount was set to 0.03 and the shares 0.014 and 0.02 were entered for
\* two members: the two stored splits are 0.01 and 0.02.
C18_Witness ==
    /\ Succeeded
    /\ Len(Entered) = 2
    /\ cmd.loc.answers.amount = "0.03"
    /\ {x.share_amount : x \in SplitsOf(database)} = {Cent, 2 * Cent}
    /\ After.amount = 3 * Cent

\* The validation failures of `expense edit`.
NotInGroup == Target = {}
PositiveNumber(s) == IsFloat(s) /\ float(s) # NaN /\ float(s) > 0
BadAmount == Target # {} /\ ~PositiveNumber(TypedAmount)
BadDate == Target # {} /\ ~IsIsoDate(TypedDate)
BadPayer == Target # {} /\ MembersNamed(cmd.before, TypedPayer, cmd.group_id) = {}
BadMember ==
    /\ cmd.loc.last.member_name # ""
    /\ MembersNamed(cmd.before, cmd.loc.last.member_name, cmd.group_id) = {}
NegativeShare ==
    /\ IsFloat(cmd.loc.last.share)
    /\ float(cmd.loc.last.share) # NaN
    /\ float(cmd.loc.last.share) < 0
SumMismatch ==
    /\ Target # {}
    /\ Entered # <<>>
    /\ PositiveNumber(TypedAmount)
    /\ Round2(SumOver(DOMAIN Entered, [k \in DOMAIN Entered |-> Entered[k].share_amount]))
         # Round2(float(TypedAmount))

\* The command left the ledger as it was and committed nothing.
LedgerUnchanged ==
    /\ database = cmd.before
    /\ cmd.exc = "Exit"
    /\ \A k \in 1..Len(log) : log[k].op \notin {"commit", "add", "delete_splits"}

\* C19: when the expense is not in the active group, the amount is not a
\* positive number, the date is invalid, the payer or a split member is not in
\* the group, a share is negative, or the new splits do not sum to the new
\* amount, `expense edit` exits without committing and without adding or
\* deleting a split, and the stored expense fields and splits are as before.
C19_EditValidation ==
    (Edit /\ (\/ NotInGroup \/ BadAmount \/ BadDate \/ BadPayer
              \/ BadMember \/ NegativeShare \/ SumMismatch))
        => LedgerUnchanged

\* The same for every failure but the amount "nan".
EditValidationOfNumbers ==
    (Edit /\ (NotInGroup \/ TypedAmount # "nan")
          /\ (\/ NotInGroup \/ BadAmount \/ BadDate \/ BadPayer
              \/ BadMember \/ NegativeShare \/ SumMismatch))
        => LedgerUnchanged

\* C20: when the split section of `expense edit` is left empty, no split is
\* added, removed or changed, even if the new amount is not their sum, while
\* description, amount (rounded to 2 decimals), date and payer are stored as
\* entered and committed.
C20_EditKeepsSplits ==
    (Succeeded /\ Entered = <<>>) =>
        /\ database.splits = cmd.before.splits
        /\ After = [Before EXCEPT
                       !.description = TypedDescription,
                       !.amount = RoundFloat(float(TypedAmount)),
                       !.date = fromisoformat(TypedDate),
                       !.paid_by_id =
                           (CHOOSE m \in MembersNamed(cmd.before, TypedPayer, cmd.group_id)
                               : TRUE).id]
        /\ database.expenses \ {After} = cmd.before.expenses \ {Before}
        /\ EditCalls = <<"commit">>
        /\ database = db

\* Every field was changed and no split entered: the two old splits of 0.01
\* stay although the new amount is 0.03.
C20_Witness ==
    /\ Succeeded
    /\ Entered = <<>>
    /\ cmd.loc.answers = [description |-> "lunch", amount |-> "0.03",
                           date |-> "20240202", payer |-> MemberNames[2]]
    /\ After.paid_by_id # Before.paid_by_id
    /\ After.date = "2024-02-02"
    /\ After.amount = 3 * Cent
    /\ {x.share_amount : x \in SplitsOf(database)} = {Cent}
    /\ Cardinality(SplitsOf(database)) = 2

\* A pass of the body of the while loop is taken.
LoopStep == pc = "loop" /\ pc' = "loop" /\ iters' = iters + 1

\* C22: after each step the debtor cursor advances, by one, exactly when that
\* debtor's remaining amount is <= 0.01, and the creditor cursor advances
\* exactly when that creditor's remaining amount is <= 0.01; when the two
\* amounts were equal both advance in that step; no cursor ever moves back.
C22_CursorRule ==
    [][/\ i' >= i
       /\ j' >= j
       /\ LoopStep =>
             /\ i' = (IF debtors'[i + 1][2] <= Eps THEN i + 1 ELSE i)
             /\ j' = (IF creditors'[j + 1][2] <= Eps THEN j + 1 ELSE j)
             /\ debtors[i + 1][2] = creditors[j + 1][2] => (i' = i + 1 /\ j' = j + 1)]_vars

\* Two steps were taken: in one the creditor cursor alone moved, in the
\* other the amounts were equal and both cursors moved.
C22_Witness ==
    /\ pc = "loop"
    /\ iters = 2
    /\ i = 1
    /\ j = 2
    /\ debtors[1][2] = 0
    /\ creditors[2][2] = 0

\* The largest cent-rounded debt and credit of the input.
LargestDebt == CHOOSE v \in {-CentBalance[k] : k \in DebtorSet} :
                   \A k \in DebtorSet : -CentBalance[k] <= v
LargestCredit == CHOOSE v \in {CentBalance[k] : k \in CreditorSet} :
                     \A k \in CreditorSet : CentBalance[k] <= v

\* C23: the first entry pairs a largest debtor with a largest creditor for the
\* smaller of their two amounts; along the sequence the debtors appear in
\* non-increasing order of input debt and the creditors in non-increasing
\* order of input credit, and no member appears again after another member
\* has taken its place.
C23_OutputOrder ==
    /\ res # <<>> =>
          /\ -CentBalance[res[1][1]] = LargestDebt
          /\ CentBalance[res[1][2]] = LargestCredit
          /\ res[1][3] = Min(LargestDebt, LargestCredit)
    /\ \A n, m \in Entries :
          n < m => /\ -CentBalance[res[n][1]] >= -CentBalance[res[m][1]]
                   /\ CentBalance[res[n][2]] >= CentBalance[res[m][2]]
    /\ \A n, m, q \in Entries :
          (n < m /\ m < q) =>
              /\ res[n][1] = res[q][1] => res[m][1] = res[n][1]
              /\ res[n][2] = res[q][2] => res[m][2] = res[n][2]

\* The mapping lists a smaller debtor before a larger one and a smaller
\* creditor before a larger one, and the transfers returned begin with the
\* larger pair and end with the smaller.
C23_Witness ==
    /\ pc = "done"
    /\ Len(res) >= 2
    /\ \E a, b \in DebtorSet : a < b /\ CentBalance[a] > CentBalance[b]
    /\ \E a, b \in CreditorSet : a < b /\ CentBalance[a] < CentBalance[b]
    /\ res[1][1] # res[Len(res)][1]
    /\ res[1][2] # res[Len(res)][2]

\* C24: creditors of equal amounts, and debtors of equal amounts, stand in
\* the sorted lists, and are paired in the result, in the iteration order of
\* the input mapping.
C24_StableTies ==
    /\ \A n, m \in 1..Len(creditors) :
          (n < m /\ CentBalance[creditors[n][1]] = CentBalance[creditors[m][1]])
              => creditors[n][1] < creditors[m][1]
    /\ \A n, m \in 1..Len(debtors) :
          (n < m /\ CentBalance[debtors[n][1]] = CentBalance[debtors[m][1]])
              => debtors[n][1] < debtors[m][1]
    /\ \A n, m \in Entries :
          n < m =>
             /\ CentBalance[res[n][1]] = CentBalance[res[m][1]] => res[n][1] <= res[m][1]
             /\ CentBalance[res[n][2]] = CentBalance[res[m][2]] => res[n][2] <= res[m][2]

\* Two creditors of equal amounts follow a smaller creditor in the mapping:
\* the sort moves them to the front and they are paid in the order of the
\* mapping.
C24_Witness ==
    /\ pc = "done"
    /\ \E a, b, c \in CreditorSet :
          /\ a < b
          /\ b < c
          /\ CentBalance[a] < CentBalance[b]
          /\ CentBalance[b] = CentBalance[c]
          /\ Len(res) = 2
          /\ res[1][2] = b
          /\ res[2][2] = c

\* C25: over the returned entries no debtor pays more than its cent-rounded
\* debt and no creditor receives more than its cent-rounded credit (a member
\* that is neither pays and receives nothing), and at every point of the loop
\* every remaining amount is >= 0.
C25_NoOverpayment ==
    /\ \A k \in Members :
          /\ PaidBy(k) <= (IF CentBalance[k] < 0 THEN -CentBalance[k] ELSE 0)
          /\ ReceivedBy(k) <= (IF CentBalance[k] > 0 THEN CentBalance[k] ELSE 0)
    /\ \A n \in 1..Len(debtors) : debtors[n][2] >= 0
    /\ \A n \in 1..Len(creditors) : creditors[n][2] >= 0

\* A debtor paid its whole debt in two transfers, and a creditor was left
\* short of its credit.
C25_Witness ==
    /\ pc = "done"
    /\ \E k \in DebtorSet :
          /\ PaidBy(k) = -CentBalance[k]
          /\ Cardinality({n \in Entries : res[n][1] = k}) = 2
    /\ \E k \in CreditorSet : ReceivedBy(k) < CentBalance[k]

\* C30: for every input mapping the copy of the solver in splits.py, the one
\* `split show` calls, returns the same sequence as
\* helpers.min_cash_flow_settlements, the one the unit tests exercise.
C30_CopiesAgree ==
    /\ _min_cash_flow_settlements(balances) = MinCashFlowSettlements(balances)
    /\ pc = "done" => res = _min_cash_flow_settlements(balances)

\* helpers.min_cash_flow_settlements has returned three transfers, from
\* balances with sub-cent noise or from a mapping of the unit tests.
C30_Witness ==
    /\ pc = "done"
    /\ Len(res) = 3
    /\ \E k \in Members : balances[k] % Cent # 0 \/ Abs(balances[k]) > Cent * MaxCents
    /\ res = _min_cash_flow_settlements(balances)

Existing(rows) == {rows.groups[k] : k \in 1..Len(rows.groups)}

\* A group command has just run to its end.
GroupCommandRan(name) == cmd'.name = name /\ cmd'.exc = "none"

\* C29: after any sequence of group create, group select, group delete and
\* group clear-session commands, run one at a time, the session file is absent
\* or holds the id of a group that exists; create stores the id of the new
\* group, delete of the active group clears the session, and delete of
\* another group leaves the session file as it was.
C29_SessionInvariant ==
    /\ [](session_file = 0 \/ session_file \in Existing(database))
    /\ [][/\ GroupCommandRan("group create") =>
               /\ session_file' \in Existing(database') \ Existing(database)
               /\ database'.names[session_file'] = cmd'.args.name
          /\ GroupCommandRan("group delete") =>
               LET left == Existing(database) \ Existing(database')
               IN  /\ Cardinality(left) = 1
                   /\ session_file' = (IF session_file \in left THEN 0 ELSE session_file)
          /\ GroupCommandRan("group clear-session") => session_file' = 0]_vars

\* Two groups were created, the first was selected again, the second was
\* deleted and the session still names the first.
C29_Witness ==
    /\ cmd.name = "group delete"
    /\ cmd.exc = "none"
    /\ Len(cmd.before.groups) = 2
    /\ cmd.session0 = cmd.before.groups[1]
    /\ session_file = cmd.session0
    /\ Existing(database) = {session_file}

\* `expense add` has stored an expense: the expense, its splits and the
\* members of the active group.
Added == cmd.name = "expense add" /\ cmd.pc = "exited" /\ cmd.body_exc = "none" /\ cmd.ran_body
NewExpense == CHOOSE e \in database.expenses : e \notin cmd.before.expenses
NewSplits == {x \in database.splits : x.expense_id = NewExpense.id}
GroupMembers(rows) == {m \in rows.members : m.group_id = cmd.group_id}

\* The sum of the net balances of the active group, as `split show` tallies
\* them.
NetSum(rows) ==
    SumOver(GroupMembers(rows), [m \in GroupMembers(rows) |-> net(rows, m, cmd.group_id)])

\* One split per chosen member, or one for the payer alone, each of
\* round(amount / n, 2).
EqualSplit ==
    Added =>
        LET chosen == {cmd.loc.split_between[k] : k \in DOMAIN cmd.loc.split_between}
            n == Cardinality(chosen)
        IN  /\ {(CHOOSE m \in database.members : m.id = x.member_id).name : x \in NewSplits}
                  = chosen
            /\ Cardinality(NewSplits) = n
            /\ \A x \in NewSplits :
                  /\ x.share_amount % Cent = 0
                  /\ 2 * n * Abs(x.share_amount - NewExpense.amount \div n) <= n * Cent + 2 * n

\* C28: the splits that `expense add` creates, one per chosen member or one
\* for the payer alone, each of round(amount / n, 2), sum to within less than
\* 0.01 of the expense amount, `expense show` flags no split mismatch for the
\* expense, and the net balances of the group, if they summed to zero before,
\* still sum to zero.
C28_EqualSplitAddsUp ==
    /\ EqualSplit
    /\ Added =>
          /\ Abs(SumOver(NewSplits, [x \in NewSplits |-> x.share_amount])
                    - NewExpense.amount) < Cent
          /\ ~SplitsMismatch(database, NewExpense)
          /\ NetSum(cmd.before) = 0 => NetSum(database) = 0

\* `split payment from to x` has ended: whether both names are members of
\* the active group, and the change it made to a member's net balance.
Paying == cmd.name = "payment" /\ cmd.pc = "exited" /\ cmd.ran_body
BothMembers ==
    /\ \E m \in GroupMembers(cmd.before) : m.name = cmd.args.from_member
    /\ \E m \in GroupMembers(cmd.before) : m.name = cmd.args.to_member
NetChange(m) == net(database, m, cmd.group_id) - net(cmd.before, m, cmd.group_id)

\* C27: payment(from, to, x) between two members of the active group raises
\* the net balance of from by x, lowers that of to by x and leaves the net
\* balance of every other member, and the sum of all of them, as they were
\* (a payment to oneself changes none); if either name is not a member of
\* the active group, no payment is recorded.
C27_PaymentEffect ==
    Paying =>
        IF BothMembers
        THEN /\ Cardinality(database.payments) = Cardinality(cmd.before.payments) + 1
             /\ \A m \in GroupMembers(cmd.before) :
                   NetChange(m) =
                       (IF m.name = cmd.args.from_member THEN cmd.args.amount ELSE 0)
                         - (IF m.name = cmd.args.to_member THEN cmd.args.amount ELSE 0)
             /\ NetSum(database) = NetSum(cmd.before)
             /\ cmd.args.from_member = cmd.args.to_member =>
                   \A m \in GroupMembers(cmd.before) : NetChange(m) = 0
        ELSE database = cmd.before

\* A payment of 0.01 from bob to ann is stored: bob's net balance is 0.01
\* higher, ann's 0.01 lower, cat's as before.
C27_Witness ==
    /\ Paying
    /\ BothMembers
    /\ cmd.args.from_member = MemberNames[2]
    /\ cmd.args.to_member = MemberNames[1]
    /\ cmd.args.amount = Cent
    /\ \E m \in GroupMembers(database) : m.name = MemberNames[2] /\ NetChange(m) = Cent
    /\ \E m \in GroupMembers(database) : m.name = MemberNames[1] /\ NetChange(m) = -Cent
    /\ \E m \in GroupMembers(database) : m.name = MemberNames[3] /\ NetChange(m) = 0

\* The net balances of the active group are whole cents and sum to zero.
WholeCentsZeroSum ==
    /\ NetSum(database) = 0
    /\ \A m \in GroupMembers(database) : net(database, m, cmd.group_id) % Cent = 0

\* `split show` was run again after every suggested transfer was recorded.
ShownAgain == Shown /\ cmd.args.again

\* C26: starting from a group whose net balances are whole cents and sum to
\* zero, once every transfer that `split show` suggests is recorded with
\* `split payment`, the next `split show` suggests no settlement.
C26_SettlingIsIdempotent ==
    (ShownAgain /\ WholeCentsZeroSum) => res = <<>>

====
